---- MODULE Spec2Model ----
(***************************************************************************)
(* Voice capture plugin: the Manager (detector loop, recording-folder      *)
(* registry, tick-request map, retry cache) and the RecordingProcessor     *)
(* upload worker, together with the host and the backend they talk to.     *)
(***************************************************************************)
EXTENDS Integers, Sequences, FiniteSets, TLC

(* ---------------------------- bounds ---------------------------------- *)
\* number of recording folders one run may generate (start edges)
MaxFolders == 2
\* number of RecordingProcessor objects one run may spawn (flushes)
MaxWorkers == 2
\* number of tick requests one run may issue
MaxRequests == 2
\* number of audio files the host may write in one run
MaxFiles == 2
\* number of iterations of the detector loop that are followed to its end
MaxIterations == 3
\* number of files of one worker's list that are followed request by request
MaxUploadFiles == 2

(* ------------------------ program constants --------------------------- *)
USER_SPEAKING_TIMEOUT == 100
SLEEP_MS == 100
INT_MAX == 2147483647

\* users known to the host
Users == {1, 2}
\* user IDs a file name can carry (one of them is nobody's)
Digits == {"0", "1", "2", "3", "4", "5", "6", "7", "8", "9"}
\* stems (base names without .wav) the host may give a recording
Stems == {<<"1", "x">>, <<"x", "1">>}

Folders == 0 .. (MaxFolders - 1)
File == [folder : Folders, stem : Stems]
ReqIds == 1 .. MaxRequests

(* --------------------- file name -> user ID --------------------------- *)
DigitVal(c) ==
    CASE c = "0" -> 0 [] c = "1" -> 1 [] c = "2" -> 2 [] c = "3" -> 3
      [] c = "4" -> 4 [] c = "5" -> 5 [] c = "6" -> 6 [] c = "7" -> 7
      [] c = "8" -> 8 [] c = "9" -> 9

\* std::string::find_first_not_of("0123456789"): 1-based index, Len+1 for npos
FindFirstNotOfDigits(stem) ==
    IF \E i \in 1 .. Len(stem) : stem[i] \notin Digits
    THEN CHOOSE i \in 1 .. Len(stem) :
            /\ stem[i] \notin Digits
            /\ \A j \in 1 .. (i - 1) : stem[j] \in Digits
    ELSE Len(stem) + 1

\* every digit of the stem, wherever it stands
IdStrAnyDigits(stem) == SelectSeq(stem, LAMBDA c : c \in Digits)

\* stem.substr(0, stem.find_first_not_of("0123456789"))
IdStr(stem) == SubSeq(stem, 1, FindFirstNotOfDigits(stem) - 1)

RECURSIVE DecimalValue(_)
DecimalValue(s) ==
    IF s = <<>> THEN 0
    ELSE 10 * DecimalValue(SubSeq(s, 1, Len(s) - 1)) + DigitVal(s[Len(s)])

\* std::stoi on a digit string: {} when it throws (invalid_argument on an
\* empty string, out_of_range above INT_MAX), {value} otherwise
Stoi(s) ==
    IF s = <<>> THEN {}
    ELSE IF DecimalValue(s) > INT_MAX THEN {}
    ELSE {DecimalValue(s)}

\* the user ID carried by a file name, {} on a thrown failure
ExtractUserID(file) == Stoi(IdStr(file.stem))

(* ----------------------------- state ---------------------------------- *)
VARIABLES
    \* Manager
    m_userMap,                        \* user -> [isSpeaking, sinceSpoke]
    m_userTickMap,                    \* user -> pending tick request id
    m_userTickCache,                  \* file -> UserTickData (retry cache)
    m_recordingFolders,               \* sequence of [recordingFolder, state]
    m_recordingFolderCounter,
    m_generateNewRecordingFolderName,
    m_recordingStoppedSignal,
    m_recordingProcessors,            \* sequence of RecordingProcessor objects
    \* Manager::periodic
    pc,                               \* position of the detector thread
    aUserWasSpeaking,
    \* host
    hostRecording,                    \* the host is recording
    hostFolder,                       \* ... into this folder
    pendingStops,                     \* stop-completion callbacks not yet delivered
    disk,                             \* files present on disk
    dirs,                             \* recording folders present on disk
    \* history
    written,                          \* files the host has ever written
    toggleArgs,                       \* folder arguments of the toggles of this iteration
    generated,                        \* folder paths generated so far
    nextReq,                          \* next tick request id
    requested,                        \* files for which a request reached the transport
    finalizeCount,                    \* file -> finalize calls completed without a throw
    aborted                           \* the constructor's assert stopped the process

\* one file in RecordingProcessor::process, request by request
VARIABLES
    audioFileSize,                    \* size of the file in bytes
    fileOnDisk,                       \* the file is present on disk
    cachedTickData,                   \* the RetryCache entry of the file's path
    pendingTickData,                  \* what the user's pending tick request yields
    uploadTickData,                   \* the local std::optional<UserTickData>
    audioChunks,                      \* sizes of the chunks read from the file
    fileID,                           \* identifier the create call returned
    chunkID,                          \* index of the next chunk to send
    uploadAt,                         \* position in the loop body
    uploadThrew,                      \* the step whose failure was thrown, if any
    uploadRequests,                   \* requests of this file handed to the transport, in order
    uploadFileNo,                     \* position of the file in m_files
    uploadLog                         \* for each request of the pass, in order, the file it was for

\* Manager::periodic from construction to the destructor's join
VARIABLES
    m_exitSignal,
    periodicAt,                       \* position of the detector thread
    managerLife,                      \* constructed, destructor waiting, joined
    iterations,                       \* loop iterations completed
    absorbed                          \* failures logged and survived

\* the Manager's mutexes
VARIABLES
    lockHeld,                         \* thread -> locks held, in acquisition order
    lockOp                            \* thread -> operation in progress and steps left

\* the chat topic
VARIABLES
    m_topic,
    topicArg                          \* last argument of setChatTopic

\* one HTTPRequest object and its calls of send()
VARIABLES
    m_data,                           \* [method, contentType]
    m_socketDesc,                     \* the descriptor, or -1
    sendAt,                           \* position of send(): idle or in the read loop
    response,                         \* sizes of the pieces appended to the response
    sinceStartedAt,                   \* seconds since startedAt was taken
    recvResult,                       \* what the last ::recv gave
    sendResult,                       \* how the last send() ended
    netSends,                         \* calls of ::send on the socket
    exchanges                         \* calls of send() that returned a response

\* where the RecordingProcessor objects and the Manager's members live
VARIABLES
    vecStorage,                       \* the allocation that holds the vector's elements
    vecCapacity,                      \* its capacity
    vecThreads,                       \* per worker thread: the "this" it runs on, its position
    destructorEntered,                \* ~Manager has joined the detector
    destroyedCount,                   \* members destroyed so far, last declared first
    crashed                           \* the process has stopped

\* the stop signal, statement by statement
VARIABLES
    iterAt,                           \* the call of periodic()'s loop body that is next
    pushStep,                         \* inside pushRecordingsIfAvailable: the statement that is next
    uncovered,                        \* callbacks delivered since the last folder scan began
    stopsToggled,                     \* recordings stopped so far
    callbackAt                        \* where the detector was at the last callback

\* which speech a tick fetch and a recording folder belong to
VARIABLES
    startEdges,                       \* times the speaking flags went from none set to one set
    issuedAt,                         \* tick request -> startEdges when it was issued
    sessionOf                         \* folder -> startEdges when its recording was started

mainVars == <<m_userMap, m_userTickMap, m_userTickCache, m_recordingFolders,
              m_recordingFolderCounter, m_generateNewRecordingFolderName,
              m_recordingStoppedSignal, m_recordingProcessors, pc, aUserWasSpeaking,
              hostRecording, hostFolder, pendingStops, disk, dirs, written,
              toggleArgs, generated, nextReq, requested, finalizeCount, aborted>>
uploadVars == <<audioFileSize, fileOnDisk, cachedTickData, pendingTickData,
                uploadTickData, audioChunks, fileID, chunkID, uploadAt,
                uploadThrew, uploadRequests, uploadFileNo, uploadLog>>
loopVars == <<m_exitSignal, periodicAt, managerLife, iterations, absorbed>>
lockVars == <<lockHeld, lockOp>>
topicVars == <<m_topic, topicArg>>
requestVars == <<m_data, m_socketDesc, sendAt, response, sinceStartedAt,
                 recvResult, sendResult, netSends, exchanges>>

lifeVars == <<vecStorage, vecCapacity, vecThreads, destructorEntered,
              destroyedCount, crashed>>

signalVars == <<iterAt, pushStep, uncovered, stopsToggled, callbackAt>>

sessionVars == <<startEdges, issuedAt, sessionOf>>

vars == <<mainVars, uploadVars, loopVars, lockVars, topicVars, requestVars, lifeVars, signalVars, sessionVars>>

managerUserVars == <<m_userMap, m_userTickMap, nextReq>>
registryVars == <<m_recordingFolders, m_recordingFolderCounter,
                  m_generateNewRecordingFolderName, generated>>
hostVars == <<hostRecording, hostFolder, pendingStops>>
backendVars == <<requested, finalizeCount>>
diskVars == <<disk, dirs>>

\* std::optional: {} is nullopt, {v} holds v
NoTickData == [tickID |-> {}, elapsed |-> {}]
TickDataOf(req) == [tickID |-> {req}, elapsed |-> {req}]

\* the argument of a toggle that carries no folder ("")
NoFolder == <<>>
FolderArg(n) == <<n>>

EmptyMap == <<>>

\* a UserTickDataRequest: the GET /replay/tick it carries, and whether its
\* response will hold a body with both tickId and elapsed
NewTickRequest(req, answered) == [request |-> req, answered |-> answered]

ManagerInit ==
    /\ m_userMap = [u \in Users |-> [isSpeaking |-> FALSE,
                                     sinceSpoke |-> USER_SPEAKING_TIMEOUT]]
    /\ m_userTickMap = EmptyMap
    /\ m_userTickCache = EmptyMap
    /\ m_recordingFolders = <<>>
    /\ m_recordingFolderCounter = 0
    /\ m_generateNewRecordingFolderName = TRUE
    /\ m_recordingStoppedSignal = FALSE
    /\ m_recordingProcessors = <<>>
    /\ pc = "sweep"
    /\ aUserWasSpeaking = FALSE
    /\ hostRecording = FALSE
    /\ hostFolder = NoFolder
    /\ pendingStops = 0
    /\ disk = {}
    /\ dirs = {}
    /\ written = {}
    /\ toggleArgs = <<>>
    /\ generated = <<>>
    /\ nextReq = 1
    /\ requested = {}
    /\ finalizeCount = [f \in File |-> 0]
    /\ aborted = FALSE

\* no file is being followed request by request
UploadIdle ==
    /\ audioFileSize = 0
    /\ fileOnDisk = FALSE
    /\ cachedTickData = <<>>
    /\ pendingTickData = NoTickData
    /\ uploadTickData = <<>>
    /\ audioChunks = <<>>
    /\ fileID = ""
    /\ chunkID = 0
    /\ uploadAt = "idle"
    /\ uploadThrew = ""
    /\ uploadRequests = <<>>
    /\ uploadFileNo = 0
    /\ uploadLog = <<>>

\* the lifetime of the detector thread is not followed
LoopIdle ==
    /\ m_exitSignal = FALSE
    /\ periodicAt = "idle"
    /\ managerLife = "alive"
    /\ iterations = 0
    /\ absorbed = 0

\* the mutexes are not followed
LockIdle ==
    /\ lockHeld = <<>>
    /\ lockOp = <<>>

\* the chat topic is not followed
TopicIdle ==
    /\ m_topic = <<>>
    /\ topicArg = <<>>

\* no HTTPRequest object is followed
RequestIdle ==
    /\ m_data = <<>>
    /\ m_socketDesc = -1
    /\ sendAt = "idle"
    /\ response = <<>>
    /\ sinceStartedAt = 0
    /\ recvResult = ""
    /\ sendResult = ""
    /\ netSends = 0
    /\ exchanges = 0

\* object lifetimes are not followed
LifeIdle ==
    /\ vecStorage = 0
    /\ vecCapacity = 0
    /\ vecThreads = <<>>
    /\ destructorEntered = FALSE
    /\ destroyedCount = 0
    /\ crashed = FALSE

\* the stop signal is not followed statement by statement
SignalIdle ==
    /\ iterAt = ""
    /\ pushStep = 0
    /\ uncovered = 0
    /\ stopsToggled = 0
    /\ callbackAt = 0

\* no tick fetch or folder is traced to its speech
SessionIdle ==
    /\ startEdges = 0
    /\ issuedAt = <<>>
    /\ sessionOf = <<>>

Init == ManagerInit /\ UploadIdle /\ LoopIdle /\ LockIdle /\ TopicIdle /\ RequestIdle /\ LifeIdle /\ SignalIdle /\ SessionIdle

(* ------------------------ Manager: speech ----------------------------- *)
IsAUserSpeaking == \E u \in Users : m_userMap[u].isSpeaking

Min(a, b) == IF a < b THEN a ELSE b

\* time passing by d ms, seen through now() - lastSpokeAt
Elapse(map, d) ==
    [u \in Users |-> [map[u] EXCEPT
        !.sinceSpoke = Min(@ + d, USER_SPEAKING_TIMEOUT)]]

\* a test that still counts a frame exactly as old as the timeout
StillTalkingInclusive(sinceSpoke) == sinceSpoke <= USER_SPEAKING_TIMEOUT
\* the sweep's test on one user
StillTalking(sinceSpoke) == sinceSpoke < USER_SPEAKING_TIMEOUT

UserHasJustSpoken(u) ==
    /\ ~aborted
    /\ UNCHANGED <<uploadVars, loopVars, lockVars, topicVars, requestVars, lifeVars, signalVars, sessionVars>>
    /\ (u \notin DOMAIN m_userTickMap) => nextReq <= MaxRequests
    /\ m_userMap' = [m_userMap EXCEPT ![u] = [isSpeaking |-> TRUE, sinceSpoke |-> 0]]
    /\ IF u \notin DOMAIN m_userTickMap
       THEN /\ \E answered \in BOOLEAN :
                  m_userTickMap' = (u :> NewTickRequest(nextReq, answered)) @@ m_userTickMap
            /\ nextReq' = nextReq + 1
       ELSE UNCHANGED <<m_userTickMap, nextReq>>
    /\ UNCHANGED <<m_userTickCache, registryVars, m_recordingStoppedSignal,
                   m_recordingProcessors, pc, aUserWasSpeaking, hostVars, diskVars,
                   written, toggleArgs, backendVars, aborted>>

AreUsersStillTalking ==
    /\ ~aborted
    /\ UNCHANGED <<uploadVars, loopVars, lockVars, topicVars, requestVars, lifeVars, signalVars, sessionVars>>
    /\ pc = "sweep"
    /\ m_userMap' = [u \in Users |->
          IF m_userMap[u].isSpeaking /\ ~StillTalking(m_userMap[u].sinceSpoke)
          THEN [m_userMap[u] EXCEPT !.isSpeaking = FALSE]
          ELSE m_userMap[u]]
    /\ pc' = "toggle"
    /\ toggleArgs' = <<>>
    /\ UNCHANGED <<m_userTickMap, nextReq, m_userTickCache, registryVars,
                   m_recordingStoppedSignal, m_recordingProcessors,
                   aUserWasSpeaking, hostVars, diskVars, written, backendVars, aborted>>

(* ------------------------------ host ---------------------------------- *)
\* toggleRecording(folder, callback, context): starts a recording into the
\* folder, or stops the running one and owes a stop-completion callback
HostToggleRecording(arg) ==
    IF hostRecording
    THEN /\ hostRecording' = FALSE
         /\ pendingStops' = pendingStops + 1
         /\ UNCHANGED hostFolder
    ELSE /\ hostRecording' = TRUE
         /\ hostFolder' = arg
         /\ UNCHANGED pendingStops

\* the host creates the folder it is told to record into
HostCreatesFolder(existing, arg) ==
    IF arg # NoFolder THEN existing \cup {arg[1]} ELSE existing

\* the host writes one recording into the folder of the running session
HostWritesFile(stem) ==
    /\ ~aborted
    /\ UNCHANGED <<uploadVars, loopVars, lockVars, topicVars, requestVars, lifeVars, signalVars, sessionVars>>
    /\ hostRecording
    /\ hostFolder # NoFolder
    /\ hostFolder[1] \in dirs
    /\ Cardinality(written) < MaxFiles
    /\ LET file == [folder |-> hostFolder[1], stem |-> stem] IN
        /\ file \notin written
        /\ disk' = disk \cup {file}
        /\ written' = written \cup {file}
    /\ UNCHANGED <<dirs, managerUserVars, m_userTickCache, registryVars,
                   m_recordingStoppedSignal, m_recordingProcessors, pc,
                   aUserWasSpeaking, hostVars, toggleArgs, backendVars, aborted>>

\* the host delivers a stop-completion callback
RecordingHasStopped ==
    /\ ~aborted
    /\ UNCHANGED <<uploadVars, loopVars, lockVars, topicVars, requestVars, lifeVars, signalVars, sessionVars>>
    /\ pendingStops > 0
    /\ pendingStops' = pendingStops - 1
    /\ m_recordingStoppedSignal' = TRUE
    /\ UNCHANGED <<managerUserVars, m_userTickCache, registryVars,
                   m_recordingProcessors, pc, aUserWasSpeaking, hostRecording,
                   hostFolder, diskVars, written, toggleArgs, backendVars, aborted>>

(* ----------------------- Manager: detector ---------------------------- *)
\* a toggle on start edges only
ToggleNeededStartOnly(was, now) == ~was /\ now

\* a toggle on stop edges only
ToggleNeededStopOnly(was, now) == was /\ ~now

\* the edge test of toggleRecordingIfNecessary
ToggleNeeded(was, now) == (~was /\ now) \/ (was /\ ~now)

FilesIn(folder) == {f \in disk : f.folder = folder}

\* "voice" + std::to_string(m_recordingFolderCounter++): the path is
\* identified by the counter value it was built from
NewFolderPath(counter) == counter
\* the counter read without the post-increment
NextFolderCounterStuck(counter) == counter
NextFolderCounter(counter) == counter + 1

\* generateNewRecordingFolderName, with the host toggle that receives the path
GenerateNewRecordingFolderName ==
    LET newFolder == NewFolderPath(m_recordingFolderCounter) IN
    /\ m_recordingFolderCounter < MaxFolders
    /\ m_recordingFolderCounter' = NextFolderCounter(m_recordingFolderCounter)
    /\ \E removed \in BOOLEAN :
          /\ disk' = IF newFolder \in dirs /\ removed
                     THEN disk \ FilesIn(newFolder) ELSE disk
          /\ dirs' = HostCreatesFolder(
                         IF removed THEN dirs \ {newFolder} ELSE dirs,
                         FolderArg(newFolder))
    /\ m_recordingFolders' = Append(m_recordingFolders,
          [recordingFolder |-> newFolder, state |-> "Recording"])
    /\ generated' = Append(generated, newFolder)
    /\ toggleArgs' = Append(toggleArgs, FolderArg(newFolder))
    /\ HostToggleRecording(FolderArg(newFolder))

ToggleRecordingIfNecessary ==
    /\ ~aborted
    /\ UNCHANGED <<uploadVars, loopVars, lockVars, topicVars, requestVars, lifeVars, signalVars, sessionVars>>
    /\ pc = "toggle"
    /\ LET nowAUserIsSpeaking == IsAUserSpeaking IN
        /\ IF ToggleNeeded(aUserWasSpeaking, nowAUserIsSpeaking)
           THEN /\ IF m_generateNewRecordingFolderName
                   THEN GenerateNewRecordingFolderName
                   ELSE /\ toggleArgs' = Append(toggleArgs, NoFolder)
                        /\ HostToggleRecording(NoFolder)
                        /\ UNCHANGED <<m_recordingFolders, m_recordingFolderCounter,
                                       generated, diskVars>>
                /\ m_generateNewRecordingFolderName' = ~m_generateNewRecordingFolderName
           ELSE UNCHANGED <<registryVars, hostVars, toggleArgs, diskVars>>
        /\ aUserWasSpeaking' = nowAUserIsSpeaking
    /\ pc' = "push"
    /\ UNCHANGED <<managerUserVars, m_userTickCache, m_recordingStoppedSignal,
                   m_recordingProcessors, written, backendVars, aborted>>

(* ------------------- Manager: registry and flush ---------------------- *)
\* a scan that marks the folders and erases none
RegistryAfterScanErasesNone(reg) ==
    [k \in 1 .. Len(reg) |->
        IF reg[k].state \in {"Processing", "FinishedProcessingSuccessfully"}
        THEN reg[k] ELSE [reg[k] EXCEPT !.state = "Processing"]]

\* getRecordingFoldersToScan: the registry it leaves behind ...
RegistryAfterScan(reg) ==
    LET kept == SelectSeq(reg, LAMBDA e : e.state # "FinishedProcessingSuccessfully")
    IN [k \in 1 .. Len(kept) |->
          IF kept[k].state = "Processing" THEN kept[k]
          ELSE [kept[k] EXCEPT !.state = "Processing"]]

\* ... and the folders it returns
\* ... without the test for folders that are being processed
ScanEligibleAlsoProcessing(e) == e.state # "FinishedProcessingSuccessfully"

ScanEligible(e) ==
    /\ e.state # "Processing"
    /\ e.state # "FinishedProcessingSuccessfully"

GetRecordingFoldersToScan(reg) ==
    LET eligible == SelectSeq(reg, ScanEligible)
    IN [k \in 1 .. Len(eligible) |-> eligible[k].recordingFolder]

Range(s) == {s[k] : k \in 1 .. Len(s)}

\* position of a folder in a sequence of folders (0 when absent)
IndexOf(folders, folder) ==
    IF folder \in Range(folders)
    THEN CHOOSE k \in 1 .. Len(folders) : folders[k] = folder
    ELSE 0

\* the orders in which a scan may list the files: folder by folder, any
\* order within a folder
ScanOrders(listed, folders) ==
    {s \in [1 .. Cardinality(listed) -> listed] :
        /\ \A a, b \in 1 .. Cardinality(listed) : a # b => s[a] # s[b]
        /\ \A a, b \in 1 .. Cardinality(listed) :
              a < b => IndexOf(folders, s[a].folder) <= IndexOf(folders, s[b].folder)}

\* unordered_map::merge: the nodes of src whose key dst lacks move to dst
MergeInto(dst, src) ==
    [u \in (DOMAIN dst) \cup (DOMAIN src) |-> IF u \in DOMAIN dst THEN dst[u] ELSE src[u]]
\* a merge that copies the nodes and leaves the source as it was
MergeLeavesCopy(dst, src) == src
MergeLeaves(dst, src) ==
    [u \in (DOMAIN src) \cap (DOMAIN dst) |-> src[u]]

\* RecordingProcessor::RecordingProcessor
NewRecordingProcessor(files, userTickMap, scannedFolders) ==
    [m_files |-> files,
     m_userTickMap |-> MergeInto(EmptyMap, userTickMap),
     m_recordingFolders |-> <<>>,
     i |-> 1,
     pc |-> "begin",
     tickData |-> <<>>,
     scanned |-> scannedFolders,
     failed |-> {},
     sent |-> {}]

\* the body of pushRecordingsIfAvailable once the stop signal is seen
Flush ==
    LET foldersToScan == GetRecordingFoldersToScan(m_recordingFolders)
        candidates == {f \in disk : f.folder \in Range(foldersToScan)}
    IN
    /\ Len(m_recordingProcessors) < MaxWorkers
    /\ m_recordingStoppedSignal' = FALSE
    /\ m_recordingFolders' = RegistryAfterScan(m_recordingFolders)
    /\ \E scanFails \in SUBSET Range(foldersToScan) :
       \E dropped \in SUBSET {f \in candidates : f.folder \in scanFails} :
       \E audioFiles \in ScanOrders(candidates \ dropped, foldersToScan) :
          m_recordingProcessors' = Append(m_recordingProcessors,
              NewRecordingProcessor(audioFiles, m_userTickMap, Range(foldersToScan)))
    /\ m_userTickMap' = MergeLeaves(EmptyMap, m_userTickMap)
    /\ IF DOMAIN m_userTickMap = {}
       THEN aborted' \in BOOLEAN
       ELSE UNCHANGED aborted

PushRecordingsIfAvailable ==
    /\ ~aborted
    /\ UNCHANGED <<uploadVars, loopVars, lockVars, topicVars, requestVars, lifeVars, signalVars, sessionVars>>
    /\ pc = "push"
    /\ IF m_recordingStoppedSignal
       THEN Flush
       ELSE UNCHANGED <<m_recordingStoppedSignal, m_recordingFolders,
                        m_recordingProcessors, m_userTickMap, aborted>>
    /\ pc' = "sleep"
    /\ UNCHANGED <<m_userMap, nextReq, m_userTickCache, m_recordingFolderCounter,
                   m_generateNewRecordingFolderName, generated, aUserWasSpeaking,
                   hostVars, diskVars, written, toggleArgs, backendVars>>

\* std::this_thread::sleep_for(100 ms)
Sleep ==
    /\ ~aborted
    /\ UNCHANGED <<uploadVars, loopVars, lockVars, topicVars, requestVars, lifeVars, signalVars, sessionVars>>
    /\ pc = "sleep"
    /\ m_userMap' = Elapse(m_userMap, SLEEP_MS)
    /\ pc' = "sweep"
    /\ UNCHANGED <<m_userTickMap, nextReq, m_userTickCache, registryVars,
                   m_recordingStoppedSignal, m_recordingProcessors,
                   aUserWasSpeaking, hostVars, diskVars, written, toggleArgs,
                   backendVars, aborted>>

(* ----------------------- RecordingProcessor --------------------------- *)
Workers == 1 .. Len(m_recordingProcessors)

\* deleteFile: std::filesystem::remove, a thrown failure is swallowed
DeleteFile(files, file, removed) == IF removed THEN files \ {file} ELSE files

\* Manager::setCachedUserTickData / removeCachedUserTickData / getCachedUserTickData
SetCachedUserTickData(cache, file, data) ==
    [f \in (DOMAIN cache) \cup {file} |-> IF f = file THEN data ELSE cache[f]]
\* an erase that leaves the entry in place
RemoveCachedUserTickDataKeeps(cache, file) == cache
RemoveCachedUserTickData(cache, file) ==
    [f \in (DOMAIN cache) \ {file} |-> cache[f]]
GetCachedUserTickData(cache, file) ==
    IF file \in DOMAIN cache THEN <<cache[file]>> ELSE <<>>

\* waitForUserTickData: joins the user's request and parses its body
WaitForUserTickData(tickMap, userID) ==
    IF tickMap[userID].answered
    THEN TickDataOf(tickMap[userID].request)
    ELSE NoTickData

\* a loop that gives up the rest of the list after one file
NextFileAbortsBatch(i, n) == n + 1
\* for (const auto& file : m_files): continue, or the end of the body, moves
\* to the next file of the list
NextFile(i, n) == i + 1

\* step 1 of the loop body: the parent folder of the file is remembered
TrackFolder(folders, folder) ==
    IF folder \in Range(folders) THEN folders ELSE Append(folders, folder)

\* step 2: the user ID is known to this worker's snapshot
UserResolved(tickMap, file) ==
    /\ ExtractUserID(file) # {}
    /\ \A id \in ExtractUserID(file) : id \in DOMAIN tickMap

workerFrame == <<managerUserVars, registryVars, m_recordingStoppedSignal, pc,
                 aUserWasSpeaking, hostVars, dirs, written, toggleArgs, aborted>>

\* a step 3 that always joins the pending request
ResolveTickDataJoinsAlways(cache, tickMap, file, userID) ==
    <<WaitForUserTickData(tickMap, userID)>>

\* step 3: the cached tick data of the file, else the user's pending request
ResolveTickData(cache, tickMap, file, userID) ==
    IF GetCachedUserTickData(cache, file) # <<>>
    THEN GetCachedUserTickData(cache, file)
    ELSE <<WaitForUserTickData(tickMap, userID)>>

\* steps 1 to 3: track the folder, extract the user ID, resolve the tick
\* data; a file whose user cannot be resolved is deleted and skipped
ProcessExtract(w) ==
    /\ ~aborted
    /\ UNCHANGED <<uploadVars, loopVars, lockVars, topicVars, requestVars, lifeVars, signalVars, sessionVars>>
    /\ w \in Workers
    /\ LET p == m_recordingProcessors[w] IN
        /\ p.pc = "begin"
        /\ p.i <= Len(p.m_files)
        /\ LET file == p.m_files[p.i]
               folders == TrackFolder(p.m_recordingFolders, file.folder)
           IN IF UserResolved(p.m_userTickMap, file)
              THEN /\ m_recordingProcessors' = [m_recordingProcessors EXCEPT ![w] =
                         [p EXCEPT !.m_recordingFolders = folders,
                                   !.tickData = ResolveTickData(m_userTickCache,
                                        p.m_userTickMap, file,
                                        CHOOSE id \in ExtractUserID(file) : TRUE),
                                   !.pc = "upload"]]
                   /\ UNCHANGED disk
              ELSE /\ m_recordingProcessors' = [m_recordingProcessors EXCEPT ![w] =
                         [p EXCEPT !.m_recordingFolders = folders,
                                   !.i = NextFile(p.i, Len(p.m_files))]]
                   /\ \E removed \in BOOLEAN : disk' = DeleteFile(disk, file, removed)
    /\ UNCHANGED <<workerFrame, m_userTickCache, backendVars>>

\* where steps 4 to 7 may end: a thrown failure while reading the file, in
\* the create call, in a chunk upload or in the finalize call; or completion,
\* with an empty finalize response or with a non-empty one ("rejected"),
\* which is logged and changes nothing else
UploadOutcomes == {"io", "create", "chunk", "finalize", "completed", "rejected"}

\* a catch block that caches complete tick data only
CacheOnFailureIfComplete(cache, file, tickData) ==
    IF tickData # <<>> /\ tickData[1].tickID # {}
    THEN SetCachedUserTickData(cache, file, tickData[1]) ELSE cache

\* the catch block: the tick data resolved so far is cached under the path
CacheOnFailure(cache, file, tickData) ==
    IF tickData # <<>> THEN SetCachedUserTickData(cache, file, tickData[1]) ELSE cache

\* steps 4 to 7: read and chunk the file, create, chunks, finalize; a thrown
\* failure lands in the catch block, which ends the work on this file
ProcessUpload(w) ==
    /\ ~aborted
    /\ UNCHANGED <<uploadVars, loopVars, lockVars, topicVars, requestVars, lifeVars, signalVars, sessionVars>>
    /\ w \in Workers
    /\ LET p == m_recordingProcessors[w] IN
        /\ p.pc = "upload"
        /\ LET file == p.m_files[p.i] IN
           \E outcome \in UploadOutcomes :
              /\ file \notin disk => outcome = "io"
              /\ requested' = IF outcome = "io" THEN requested
                              ELSE requested \cup {file}
              /\ IF outcome \in {"completed", "rejected"}
                 THEN /\ finalizeCount' = [finalizeCount EXCEPT ![file] = @ + 1]
                      /\ m_recordingProcessors' = [m_recordingProcessors EXCEPT ![w] =
                            [p EXCEPT !.pc = "sent", !.sent = @ \cup {file}]]
                      /\ UNCHANGED m_userTickCache
                 ELSE /\ UNCHANGED finalizeCount
                      /\ m_userTickCache' = CacheOnFailure(m_userTickCache, file, p.tickData)
                      /\ m_recordingProcessors' = [m_recordingProcessors EXCEPT ![w] =
                            [p EXCEPT !.i = NextFile(p.i, Len(p.m_files)), !.pc = "begin",
                                      !.failed = @ \cup {file}]]
    /\ UNCHANGED <<workerFrame, disk>>

\* step 8: the cache entry is dropped and the file deleted
ProcessSent(w) ==
    /\ ~aborted
    /\ UNCHANGED <<uploadVars, loopVars, lockVars, topicVars, requestVars, lifeVars, signalVars, sessionVars>>
    /\ w \in Workers
    /\ LET p == m_recordingProcessors[w] IN
        /\ p.pc = "sent"
        /\ LET file == p.m_files[p.i] IN
            /\ m_userTickCache' = RemoveCachedUserTickData(m_userTickCache, file)
            /\ \E removed \in BOOLEAN : disk' = DeleteFile(disk, file, removed)
            /\ m_recordingProcessors' = [m_recordingProcessors EXCEPT ![w] =
                  [p EXCEPT !.i = NextFile(p.i, Len(p.m_files)), !.pc = "begin"]]
    /\ UNCHANGED <<workerFrame, backendVars>>

\* what the filesystem calls of recordingProcessingHasFinished do for one
\* folder: the count works (and so does a removal), the count throws, or the
\* removal throws
ReportOutcomes == {"counted", "countThrows", "removeThrows"}

\* the state set from the count alone, whatever the removal does
StateAfterReportOnCount(folder, files, existing, io) ==
    IF io # "countThrows" /\ {f \in files : f.folder = folder} = {}
    THEN "FinishedProcessingSuccessfully"
    ELSE "FinishedProcessingUnsuccessfully"

\* the folder was counted, found empty and removed
FolderRemoved(folder, files, existing, io) ==
    /\ folder \in existing
    /\ io # "countThrows"
    /\ {f \in files : f.folder = folder} = {}
    /\ io # "removeThrows"

\* the state recordingProcessingHasFinished gives a reported folder
StateAfterReport(folder, files, existing, io) ==
    IF FolderRemoved(folder, files, existing, io)
    THEN "FinishedProcessingSuccessfully"
    ELSE "FinishedProcessingUnsuccessfully"

RecordingProcessingHasFinished(reg, folders, files, existing, io) ==
    [k \in 1 .. Len(reg) |->
        IF reg[k].recordingFolder \in Range(folders)
        THEN [reg[k] EXCEPT !.state = StateAfterReport(reg[k].recordingFolder,
                                        files, existing, io[reg[k].recordingFolder])]
        ELSE reg[k]]

\* the folders recordingProcessingHasFinished removes from disk
FoldersRemovedByReport(reg, folders, files, existing, io) ==
    {folder \in Range(folders) :
        /\ \E k \in 1 .. Len(reg) : reg[k].recordingFolder = folder
        /\ FolderRemoved(folder, files, existing, io[folder])}

\* after the last file: the touched folders are reported to the Manager
ProcessFinish(w) ==
    /\ ~aborted
    /\ UNCHANGED <<uploadVars, loopVars, lockVars, topicVars, requestVars, lifeVars, signalVars, sessionVars>>
    /\ w \in Workers
    /\ LET p == m_recordingProcessors[w] IN
        /\ p.pc = "begin"
        /\ p.i > Len(p.m_files)
        /\ \E io \in [Range(p.m_recordingFolders) -> ReportOutcomes] :
              /\ m_recordingFolders' = RecordingProcessingHasFinished(
                      m_recordingFolders, p.m_recordingFolders, disk, dirs, io)
              /\ dirs' = dirs \ FoldersRemovedByReport(
                      m_recordingFolders, p.m_recordingFolders, disk, dirs, io)
        /\ m_recordingProcessors' = [m_recordingProcessors EXCEPT ![w] =
              [p EXCEPT !.pc = "done"]]
    /\ UNCHANGED <<managerUserVars, m_recordingFolderCounter,
                   m_generateNewRecordingFolderName, generated,
                   m_recordingStoppedSignal, pc, aUserWasSpeaking, hostVars,
                   written, toggleArgs, aborted, m_userTickCache, disk, backendVars>>

(* -------------------------- specification ----------------------------- *)
Next ==
    \/ \E u \in Users : UserHasJustSpoken(u)
    \/ AreUsersStillTalking
    \/ ToggleRecordingIfNecessary
    \/ PushRecordingsIfAvailable
    \/ Sleep
    \/ RecordingHasStopped
    \/ \E stem \in Stems : HostWritesFile(stem)
    \/ \E w \in 1 .. MaxWorkers : ProcessExtract(w)
    \/ \E w \in 1 .. MaxWorkers : ProcessUpload(w)
    \/ \E w \in 1 .. MaxWorkers : ProcessSent(w)
    \/ \E w \in 1 .. MaxWorkers : ProcessFinish(w)

Spec == Init /\ [][Next]_vars

\* the steps of the thread of worker w
WorkerThread(w) ==
    \/ ProcessExtract(w)
    \/ ProcessUpload(w)
    \/ ProcessSent(w)
    \/ ProcessFinish(w)

\* a worker thread that can take a step is scheduled; every transport call
\* and every joined tick fetch returns or throws
WorkerSpec == Spec /\ \A w \in 1 .. MaxWorkers : WF_vars(WorkerThread(w))

(* ---------------- one file, request by request ----------------------- *)
\* a chunk size of 100 000 bytes
ChunkSizeDecimal == 1000 * 100
\* static constexpr CHUNK_SIZE = 1024 * 100
CHUNK_SIZE == 1024 * 100

\* sizes a recording may have: empty, one byte, around one chunk, and the
\* 250 001 bytes of the documented example
FileSizes == {0, 1, CHUNK_SIZE - 1, CHUNK_SIZE, CHUNK_SIZE + 1, 2 * CHUNK_SIZE, 250001}

\* a quotient that is cut instead of rounded up
CeilTruncates(n, d) == n \div d
\* std::ceil(static_cast<double>(n) / static_cast<double>(d))
Ceil(n, d) == (n + d - 1) \div d

\* step 4: ceil(size / CHUNK_SIZE) chunks, each read with CHUNK_SIZE bytes
\* asked for and shrunk to the bytes actually read
ReadChunks(size) ==
    [j \in 1 .. Ceil(size, CHUNK_SIZE) |-> Min(CHUNK_SIZE, size - (j - 1) * CHUNK_SIZE)]

\* the file followed, and its owner
UploadFile == [folder |-> 0, stem |-> <<"1", "x">>]

\* tick data a response or a cache entry may hold
ExampleTickData == [tickID |-> {7}, elapsed |-> {42}]
OtherTickData == [tickID |-> {8}, elapsed |-> {43}]
\* a response whose "elapsed" is null, where the JSON library turns null into
\* an empty optional instead of throwing
PartialTickData == [tickID |-> {7}, elapsed |-> {}]

\* identifiers the backend may give a created file
FileIDs == {"a", "b"}

\* the requests of process(): PUT /createFile/<n>, POST /fileChunk/<id>/<k>
\* with the chunk as body, POST /chat/sendTranscribedAudioFile/from/...
CreateRequest(chunkCount) ==
    [method |-> "PUT", path |-> "/createFile", id |-> "", n |-> chunkCount,
     body |-> 0, query |-> <<>>]
ChunkRequest(id, k, size) ==
    [method |-> "POST", path |-> "/fileChunk", id |-> id, n |-> k,
     body |-> size, query |-> <<>>]
\* a query written whatever the optionals hold
FinalizeQueryAlways(tickData) ==
    << <<"tickId", tickData.tickID>>, <<"elapsed", tickData.elapsed>> >>
\* "?tickId=" << *tickID << "&elapsed=" << *elapsed, when both are present
FinalizeQuery(tickData) ==
    IF tickData.tickID # {} /\ tickData.elapsed # {}
    THEN << <<"tickId", CHOOSE v \in tickData.tickID : TRUE>>,
            <<"elapsed", CHOOSE v \in tickData.elapsed : TRUE>> >>
    ELSE <<>>
FinalizeRequest(id, tickData) ==
    [method |-> "POST", path |-> "/chat/sendTranscribedAudioFile/from", id |-> id,
     n |-> 0, body |-> 0, query |-> FinalizeQuery(tickData)]

UploadInit ==
    /\ ManagerInit /\ LoopIdle /\ LockIdle /\ TopicIdle /\ RequestIdle /\ LifeIdle /\ SignalIdle /\ SessionIdle
    /\ audioFileSize \in FileSizes
    /\ fileOnDisk = TRUE
    /\ cachedTickData \in {EmptyMap} \cup
          {SetCachedUserTickData(EmptyMap, UploadFile, d) :
              d \in {NoTickData, ExampleTickData, OtherTickData}}
    /\ pendingTickData \in {NoTickData, ExampleTickData, PartialTickData}
    /\ uploadTickData = <<>>
    /\ audioChunks = <<>>
    /\ fileID = ""
    /\ chunkID = 0
    /\ uploadAt = "resolve"
    /\ uploadThrew = ""
    /\ uploadRequests = <<>>
    /\ uploadFileNo = 1
    /\ uploadLog = <<>>

uploadFrame == <<mainVars, loopVars, lockVars, topicVars, requestVars, lifeVars, signalVars, sessionVars>>

\* a thrown failure that is swallowed where it occurs
AfterThrowResumes(at) == at
\* a thrown failure inside the try block leaves it for the catch block,
\* which ends the work on the file
AfterThrow(at) == "failed"

\* the catch block of the loop body, entered from position `at`
UploadCatch(at, step) ==
    /\ cachedTickData' = CacheOnFailure(cachedTickData, UploadFile, uploadTickData)
    /\ uploadAt' = AfterThrow(at)
    /\ uploadThrew' = step

\* step 3: the cached tick data of the path, else what the pending request gives
UploadResolve ==
    /\ uploadAt = "resolve"
    /\ uploadTickData' =
          IF GetCachedUserTickData(cachedTickData, UploadFile) # <<>>
          THEN GetCachedUserTickData(cachedTickData, UploadFile)
          ELSE <<pendingTickData>>
    /\ uploadAt' = "chunk"
    /\ UNCHANGED <<audioFileSize, fileOnDisk, cachedTickData, pendingTickData,
                   audioChunks, fileID, chunkID, uploadThrew, uploadRequests,
                   uploadFileNo, uploadLog, uploadFrame>>

\* step 4: std::filesystem::file_size, then the chunks are read
UploadChunkUp ==
    /\ uploadAt = "chunk"
    /\ \E sized \in BOOLEAN :
          IF sized /\ fileOnDisk
          THEN /\ audioChunks' = ReadChunks(audioFileSize)
               /\ uploadAt' = "create"
               /\ UNCHANGED <<cachedTickData, uploadThrew>>
          ELSE /\ UploadCatch("create", "file_size")
               /\ UNCHANGED audioChunks
    /\ UNCHANGED <<audioFileSize, fileOnDisk, pendingTickData, uploadTickData,
                   fileID, chunkID, uploadRequests, uploadFileNo, uploadLog,
                   uploadFrame>>

\* step 5: the create call; its response must parse and hold a fileId
UploadCreate ==
    /\ uploadAt = "create"
    /\ uploadRequests' = Append(uploadRequests, CreateRequest(Len(audioChunks)))
    /\ uploadLog' = Append(uploadLog, uploadFileNo)
    /\ \/ /\ fileID' \in FileIDs
          /\ uploadAt' = "chunks"
          /\ UNCHANGED <<cachedTickData, uploadThrew>>
       \/ /\ UploadCatch("chunks", "create")
          /\ UNCHANGED fileID
    /\ chunkID' = 0
    /\ UNCHANGED <<audioFileSize, fileOnDisk, pendingTickData, uploadTickData,
                   audioChunks, uploadFileNo, uploadFrame>>

\* the index a chunk request carries: chunkID++ in the URL
ChunkIndexPreIncrement(id) == id + 1
ChunkIndex(id) == id

\* step 6: one chunk upload, its response ignored
UploadSendChunk ==
    /\ uploadAt = "chunks"
    /\ chunkID < Len(audioChunks)
    /\ uploadRequests' = Append(uploadRequests,
          ChunkRequest(fileID, ChunkIndex(chunkID), audioChunks[chunkID + 1]))
    /\ uploadLog' = Append(uploadLog, uploadFileNo)
    /\ chunkID' = chunkID + 1
    /\ \/ UNCHANGED <<uploadAt, cachedTickData, uploadThrew>>
       \/ UploadCatch("chunks", "chunk")
    /\ UNCHANGED <<audioFileSize, fileOnDisk, pendingTickData, uploadTickData,
                   audioChunks, fileID, uploadFileNo, uploadFrame>>

\* step 7: the finalize call; a non-empty response body is only logged
UploadFinalize ==
    /\ uploadAt = "chunks"
    /\ chunkID = Len(audioChunks)
    /\ uploadRequests' = Append(uploadRequests, FinalizeRequest(fileID, uploadTickData[1]))
    /\ uploadLog' = Append(uploadLog, uploadFileNo)
    /\ \/ /\ uploadAt' = "sent"
          /\ UNCHANGED <<cachedTickData, uploadThrew>>
       \/ UploadCatch("sent", "finalize")
    /\ UNCHANGED <<audioFileSize, fileOnDisk, pendingTickData, uploadTickData,
                   audioChunks, fileID, chunkID, uploadFileNo, uploadFrame>>

\* step 8: the cache entry is dropped and the file deleted
UploadSent ==
    /\ uploadAt = "sent"
    /\ cachedTickData' = RemoveCachedUserTickData(cachedTickData, UploadFile)
    /\ \E removed \in BOOLEAN :
          fileOnDisk' = (fileOnDisk /\ UploadFile \in DeleteFile({UploadFile}, UploadFile, removed))
    /\ uploadAt' = "done"
    /\ UNCHANGED <<audioFileSize, pendingTickData, uploadTickData, audioChunks,
                   fileID, chunkID, uploadThrew, uploadRequests, uploadFileNo,
                   uploadLog, uploadFrame>>

\* the range-for of process() moves to the next file of m_files: another
\* path with its own size, cache entry and pending request, and fresh locals
UploadNextFile ==
    /\ uploadAt \in {"done", "failed"}
    /\ uploadFileNo < MaxUploadFiles
    /\ uploadFileNo' = NextFile(uploadFileNo, MaxUploadFiles)
    /\ audioFileSize' \in FileSizes
    /\ fileOnDisk' = TRUE
    /\ cachedTickData' \in {EmptyMap} \cup
          {SetCachedUserTickData(EmptyMap, UploadFile, d) :
              d \in {NoTickData, ExampleTickData, OtherTickData}}
    /\ pendingTickData' \in {NoTickData, ExampleTickData, PartialTickData}
    /\ uploadTickData' = <<>>
    /\ audioChunks' = <<>>
    /\ fileID' = ""
    /\ chunkID' = 0
    /\ uploadAt' = "resolve"
    /\ uploadThrew' = ""
    /\ uploadRequests' = <<>>
    /\ UNCHANGED <<uploadLog, uploadFrame>>

UploadNext ==
    \/ UploadNextFile
    \/ UploadResolve
    \/ UploadChunkUp
    \/ UploadCreate
    \/ UploadSendChunk
    \/ UploadFinalize
    \/ UploadSent

UploadSpec == UploadInit /\ [][UploadNext]_vars

(* -------------- Manager::periodic, from start to join ----------------- *)
\* m_manager is the first member: the thread runs while the other members,
\* m_exitSignal among them, are still being initialised
PeriodicInit ==
    /\ ManagerInit /\ UploadIdle /\ LockIdle /\ TopicIdle /\ RequestIdle /\ LifeIdle /\ SignalIdle /\ SessionIdle
    /\ m_exitSignal \in BOOLEAN
    /\ periodicAt = "test"
    /\ managerLife = "constructing"
    /\ iterations = 0
    /\ absorbed = 0

periodicFrame == <<mainVars, uploadVars, lockVars, topicVars, requestVars, lifeVars, signalVars, sessionVars>>

\* the default member initialisers and the constructor body have run
ManagerConstructed ==
    /\ managerLife = "constructing"
    /\ managerLife' = "alive"
    /\ m_exitSignal' = FALSE
    /\ UNCHANGED <<periodicAt, iterations, absorbed, periodicFrame>>

\* a loop that never looks at the flag
LoopContinuesAlways(exitSignal) == TRUE
\* while (!m_exitSignal)
LoopContinues(exitSignal) == ~exitSignal

PeriodicTest ==
    /\ periodicAt = "test"
    /\ IF LoopContinues(m_exitSignal)
       THEN /\ iterations < MaxIterations
            /\ periodicAt' = "sweep"
       ELSE periodicAt' = "ended"
    /\ UNCHANGED <<m_exitSignal, managerLife, iterations, absorbed, periodicFrame>>

\* areUsersStillTalking
PeriodicSweep ==
    /\ periodicAt = "sweep"
    /\ periodicAt' = "toggle"
    /\ UNCHANGED <<m_exitSignal, managerLife, iterations, absorbed, periodicFrame>>

\* how toggleRecordingIfNecessary may end: no edge; the toggle made; the
\* removal of an old folder failed and was logged before the toggle; or
\* current_path() or the host toggle threw
ToggleOutcomes == {"noEdge", "toggled", "removeFailed", "currentPathThrows", "toggleThrows"}

\* how pushRecordingsIfAvailable may end: no stop signal; a worker spawned;
\* a folder scan failed and was logged before the worker was spawned; or the
\* construction of the worker's thread threw
PushOutcomes == {"noSignal", "spawned", "scanFailed", "spawnThrows"}

\* the outcomes that are caught and logged where they occur
AbsorbedOutcomes == {"removeFailed", "scanFailed"}
\* the outcomes that leave the thread function as an exception: std::terminate
UncaughtOutcomes == {"currentPathThrows", "toggleThrows", "spawnThrows"}

\* the detector after one call of its loop body
AfterCall(outcome, next) ==
    /\ periodicAt' = IF outcome \in UncaughtOutcomes THEN "terminated" ELSE next
    /\ absorbed' = IF outcome \in AbsorbedOutcomes THEN absorbed + 1 ELSE absorbed

PeriodicToggle ==
    /\ periodicAt = "toggle"
    /\ \E outcome \in ToggleOutcomes : AfterCall(outcome, "push")
    /\ UNCHANGED <<m_exitSignal, managerLife, iterations, periodicFrame>>

PeriodicPush ==
    /\ periodicAt = "push"
    /\ \E outcome \in PushOutcomes : AfterCall(outcome, "sleep")
    /\ UNCHANGED <<m_exitSignal, managerLife, iterations, periodicFrame>>

PeriodicSleep ==
    /\ periodicAt = "sleep"
    /\ periodicAt' = "test"
    /\ iterations' = iterations + 1
    /\ UNCHANGED <<m_exitSignal, managerLife, absorbed, periodicFrame>>

\* ~Manager: m_exitSignal = true, then the join is awaited
DestructorSetsExit ==
    /\ managerLife = "alive"
    /\ periodicAt # "terminated"
    /\ m_exitSignal' = TRUE
    /\ managerLife' = "joining"
    /\ UNCHANGED <<periodicAt, iterations, absorbed, periodicFrame>>

\* m_manager.join() returns once periodic() has returned
DestructorJoins ==
    /\ managerLife = "joining"
    /\ periodicAt = "ended"
    /\ managerLife' = "joined"
    /\ UNCHANGED <<m_exitSignal, periodicAt, iterations, absorbed, periodicFrame>>

\* the steps of the detector thread
PeriodicThread ==
    \/ PeriodicTest
    \/ PeriodicSweep
    \/ PeriodicToggle
    \/ PeriodicPush
    \/ PeriodicSleep

PeriodicNext ==
    \/ ManagerConstructed
    \/ PeriodicTest
    \/ PeriodicSweep
    \/ PeriodicToggle
    \/ PeriodicPush
    \/ PeriodicSleep
    \/ DestructorSetsExit
    \/ DestructorJoins

\* a thread that can run is scheduled, and a join returns once its thread
\* has ended
PeriodicSpec ==
    /\ PeriodicInit
    /\ [][PeriodicNext]_vars
    /\ WF_vars(PeriodicThread)
    /\ WF_vars(DestructorJoins)

(* ----------------------- the Manager's mutexes ------------------------ *)
\* m_hostMutex, m_portMutex, m_topicMutex, m_userMapMutex,
\* m_userTickMapMutex, m_userTickCacheMutex, m_recordingFolderMutex
Locks == {"host", "port", "topic", "userMap", "userTickMap", "userTickCache",
          "recordingFolder"}

\* the upload workers of two flushes
WorkerThreads == {"worker", "worker2"}

\* the detector thread, the host's audio callback, the host's other
\* callbacks, and the upload workers
Threads == {"detector", "frame", "host"} \cup WorkerThreads

Acquire(l) == <<"acquire", l>>
Release(l) == <<"release", l>>
\* a lock that is taken and not given back
ScopeKeepsLock(l) == <<Acquire(l)>>
\* LOCK(m) in a function that takes no other lock: held to the closing brace
Scope(l) == <<Acquire(l), Release(l)>>

\* userHasJustSpoken with the two locks taken the other way round
UserHasJustSpokenLocksReversed(inner) ==
    <<Acquire("userTickMap"), Acquire("userMap")>> \o inner
        \o <<Release("userMap"), Release("userTickMap")>>
\* LOCK2(m_userMapMutex, m_userTickMapMutex) around the body of
\* userHasJustSpoken
UserHasJustSpokenLocks(inner) ==
    <<Acquire("userMap"), Acquire("userTickMap")>> \o inner
        \o <<Release("userTickMap"), Release("userMap")>>

\* the lock events of an operation, in order; userHasJustSpoken calls
\* getHost() and getPort() only when it issues a tick request
EventsOf(name) ==
    CASE name = "areUsersStillTalking" -> {Scope("userMap")}
      [] name = "isAUserSpeaking" -> {Scope("userMap")}
      [] name = "generateNewRecordingFolderName" -> {Scope("recordingFolder")}
      [] name = "pushRecordingsIfAvailable" ->
            {<<>>,
             <<Acquire("userTickMap")>> \o Scope("recordingFolder")
                 \o <<Release("userTickMap")>>}
      [] name = "userHasJustSpoken" ->
            {UserHasJustSpokenLocks(<<>>),
             UserHasJustSpokenLocks(Scope("host") \o Scope("port"))}
      [] name = "setUserName" -> {Scope("userMap")}
      [] name = "setChatTopic" -> {Scope("topic")}
      [] name = "getChatTopic" -> {Scope("topic")}
      [] name = "setHost" -> {Scope("host")}
      [] name = "getHost" -> {Scope("host")}
      [] name = "setPort" -> {Scope("port")}
      [] name = "getPort" -> {Scope("port")}
      [] name = "getCachedUserTickData" -> {Scope("userTickCache")}
      [] name = "setCachedUserTickData" -> {Scope("userTickCache")}
      [] name = "removeCachedUserTickData" -> {Scope("userTickCache")}
      [] name = "recordingProcessingHasFinished" -> {Scope("recordingFolder")}

\* the operations each thread calls
OperationsOf(t) ==
    CASE t = "detector" -> {"areUsersStillTalking", "isAUserSpeaking",
                            "generateNewRecordingFolderName",
                            "pushRecordingsIfAvailable"}
      [] t = "frame" -> {"userHasJustSpoken"}
      [] t = "host" -> {"setUserName", "setChatTopic", "getChatTopic",
                        "setHost", "setPort"}
      [] t \in WorkerThreads ->
                         {"getCachedUserTickData", "getHost", "getPort",
                          "getChatTopic", "removeCachedUserTickData",
                          "setCachedUserTickData",
                          "recordingProcessingHasFinished"}

NoOperation == [name |-> "", rest |-> <<>>]

LockInit ==
    /\ ManagerInit /\ UploadIdle /\ LoopIdle /\ TopicIdle /\ RequestIdle /\ LifeIdle /\ SignalIdle /\ SessionIdle
    /\ lockHeld = [t \in Threads |-> <<>>]
    /\ lockOp = [t \in Threads |-> NoOperation]

lockFrame == <<mainVars, uploadVars, loopVars, topicVars, requestVars, lifeVars, signalVars, sessionVars>>

\* the threads that hold lock l
HoldersOf(l) == {t \in Threads : \E k \in 1 .. Len(lockHeld[t]) : lockHeld[t][k] = l}

\* thread t enters one of its operations
LockBegin(t, name) ==
    /\ lockOp[t] = NoOperation
    /\ name \in OperationsOf(t)
    /\ \E events \in EventsOf(name) :
          /\ events # <<>>
          /\ lockOp' = [lockOp EXCEPT ![t] = [name |-> name, rest |-> events]]
    /\ UNCHANGED <<lockHeld, lockFrame>>

\* std::lock_guard's constructor: blocks while another thread holds the mutex
LockAcquire(t) ==
    /\ lockOp[t].rest # <<>>
    /\ Head(lockOp[t].rest)[1] = "acquire"
    /\ HoldersOf(Head(lockOp[t].rest)[2]) = {}
    /\ lockHeld' = [lockHeld EXCEPT ![t] = Append(@, Head(lockOp[t].rest)[2])]
    /\ lockOp' = [lockOp EXCEPT ![t].rest = Tail(@)]
    /\ UNCHANGED lockFrame

\* std::lock_guard's destructor; the operation is over with its last release
LockRelease(t) ==
    /\ lockOp[t].rest # <<>>
    /\ Head(lockOp[t].rest)[1] = "release"
    /\ lockHeld' = [lockHeld EXCEPT ![t] =
          SelectSeq(@, LAMBDA l : l # Head(lockOp[t].rest)[2])]
    /\ lockOp' = [lockOp EXCEPT ![t] =
          IF Len(@.rest) = 1 THEN NoOperation ELSE [@ EXCEPT !.rest = Tail(@)]]
    /\ UNCHANGED lockFrame

LockNext ==
    \/ \E t \in Threads : \E name \in OperationsOf(t) : LockBegin(t, name)
    \/ \E t \in Threads : LockAcquire(t)
    \/ \E t \in Threads : LockRelease(t)

LockSpec == LockInit /\ [][LockNext]_vars

\* a thread inside an operation keeps running: the end of a scope is
\* reached, and a thread blocked in std::mutex::lock is woken when the
\* mutex, however often it is taken by others, is free again and again
LockFairSpec ==
    LockSpec /\ \A t \in Threads : WF_vars(LockRelease(t)) /\ SF_vars(LockAcquire(t))

(* --------------------------- the chat topic --------------------------- *)
\* a std::string is a sequence of char values; '0' = 48, '9' = 57, 'A' = 65,
\* 'Z' = 90, 'a' = 97, 'z' = 122
SANITIZED_STRING_LIMIT == 100
MaxShortTopic == 2
LongTopicLengths == {99, 100, 101, 150, 199, 201}
LongTopicPeriods == {2, 3, 7, 1000}

\* the characters next to the three ranges, and a byte above 127 as a signed
\* and as an unsigned char
TopicChars == {-61, 47, 48, 57, 58, 64, 65, 90, 91, 96, 97, 122, 123, 195}

\* digits with a '-' at every period-th place
LongTopic(n, period) ==
    [k \in 1 .. n |-> IF k % period = 0 THEN 45 ELSE 48 + (k % 10)]

ShortTopics == UNION {[1 .. n -> TopicChars] : n \in 0 .. MaxShortTopic}

TopicArgs ==
    ShortTopics \cup {LongTopic(n, period) : n \in LongTopicLengths,
                                             period \in LongTopicPeriods}

\* m_topic = "RADIO"
DefaultTopic == <<82, 65, 68, 73, 79>>

\* the loop's break test with the limit itself allowed through
AtLimitExclusive(size) == size > SANITIZED_STRING_LIMIT
AtLimit(size) == size >= SANITIZED_STRING_LIMIT

KeptChar(chr) ==
    \/ chr >= 48 /\ chr <= 57
    \/ chr >= 65 /\ chr <= 90
    \/ chr >= 97 /\ chr <= 122

\* one pass of the loop body
SanitiseStep(finalString, chr) ==
    IF AtLimit(Len(finalString)) THEN finalString
    ELSE IF KeptChar(chr) THEN Append(finalString, chr)
    ELSE finalString

\* the range-for over str[lo .. hi], in order, split in halves to keep the
\* evaluation shallow; after the break no later character is looked at
RECURSIVE SanitiseRange(_, _, _, _)
SanitiseRange(str, lo, hi, finalString) ==
    IF lo > hi THEN finalString
    ELSE IF lo = hi THEN SanitiseStep(finalString, str[lo])
    ELSE LET mid == (lo + hi) \div 2
             firstHalf == SanitiseRange(str, lo, mid, finalString)
         IN  IF AtLimit(Len(firstHalf)) THEN firstHalf
             ELSE SanitiseRange(str, mid + 1, hi, firstHalf)

sanitiseString(str) == SanitiseRange(str, 1, Len(str), <<>>)

getChatTopic == m_topic

TopicInit ==
    /\ ManagerInit /\ UploadIdle /\ LoopIdle /\ LockIdle /\ RequestIdle /\ LifeIdle /\ SignalIdle /\ SessionIdle
    /\ m_topic = DefaultTopic
    /\ topicArg = <<>>

\* topicArg keeps the argument of the last call
setChatTopic(topic) ==
    /\ m_topic' = sanitiseString(topic)
    /\ topicArg' = <<topic>>
    /\ UNCHANGED <<mainVars, uploadVars, loopVars, lockVars, requestVars, lifeVars, signalVars, sessionVars>>

TopicNext == \E topic \in TopicArgs : setChatTopic(topic)

TopicSpec == TopicInit /\ [][TopicNext]_vars

(* ------------------------- HTTPRequest::send --------------------------- *)
\* the seconds of silence after which the read loop gives up
READ_TIMEOUT == 8
\* char buffer[2048]
RECV_BUFFER == 2048
\* seconds followed after startedAt
MaxReadSeconds == 9
\* pieces of a response followed
MaxPieces == 2
\* calls of ::send followed
MaxSends == 2

\* the enumerators of HTTPRequest::Data::Method, and the PUT that
\* RecordingProcessor::process names for its create-file call
Method == {"GET", "POST"}
RequestedMethods == Method \cup {"PUT"}
ContentType == {"TEXT", "RAW"}

\* the first switch of send(): the start of the request line, or nothing
\* where the default label throws
RequestLine(method) ==
    CASE method = "GET" -> <<"GET", " ">>
      [] method = "POST" -> <<"POST", " ">>
      [] OTHER -> <<>>

\* the byte counts a ::recv into the buffer can give
PieceSizes == {1, RECV_BUFFER}
\* ::recv(..., MSG_DONTWAIT): -1 with EAGAIN or EWOULDBLOCK, -1 with another
\* errno, a positive byte count, or 0 when the peer has closed
RecvResults == {"wouldBlock", "error", "data", "closed"}

\* a would-block branch that looks at the clock first
WouldBlockTimeoutFirst(resp, elapsed) ==
    IF elapsed >= READ_TIMEOUT THEN "timeout"
    ELSE IF resp # <<>> THEN "break" ELSE "continue"
\* the would-block branch of the read loop
WouldBlock(resp, elapsed) ==
    IF resp # <<>> THEN "break"
    ELSE IF elapsed >= READ_TIMEOUT THEN "timeout" ELSE "continue"

\* m_socketDesc is left as it was
SocketAfterResponseStaysOpen(desc) == desc
\* ::close(m_socketDesc); m_socketDesc = -1;
SocketAfterResponse(desc) == -1

\* a descriptor ::socket returned
ConnectedSocket == 3

\* HTTPRequest::HTTPRequest returned: the socket is connected
RequestInit ==
    /\ ManagerInit /\ UploadIdle /\ LoopIdle /\ LockIdle /\ TopicIdle /\ LifeIdle /\ SignalIdle /\ SessionIdle
    /\ m_data \in [method : RequestedMethods, contentType : ContentType]
    /\ m_socketDesc = ConnectedSocket
    /\ sendAt = "idle"
    /\ response = <<>>
    /\ sinceStartedAt = 0
    /\ recvResult = ""
    /\ sendResult = ""
    /\ netSends = 0
    /\ exchanges = 0

requestFrame == <<mainVars, uploadVars, loopVars, lockVars, topicVars, lifeVars, signalVars, sessionVars>>

\* send() up to the read loop: the state test, the request line, ::send
SendRequest ==
    /\ sendAt = "idle"
    /\ (m_socketDesc >= 0 /\ RequestLine(m_data.method) # <<>>) => netSends < MaxSends
    /\ IF m_socketDesc < 0
       THEN /\ sendResult' = "badState"
            /\ UNCHANGED <<sendAt, netSends>>
       ELSE IF RequestLine(m_data.method) = <<>>
       THEN /\ sendResult' = "invalidMethod"
            /\ UNCHANGED <<sendAt, netSends>>
       ELSE /\ netSends' = netSends + 1
            /\ \E sent \in BOOLEAN :
                  IF sent
                  THEN sendAt' = "reading" /\ sendResult' = ""
                  ELSE sendAt' = "idle" /\ sendResult' = "sendError"
    /\ response' = <<>>
    /\ sinceStartedAt' = 0
    /\ recvResult' = ""
    /\ UNCHANGED <<m_data, m_socketDesc, exchanges, requestFrame>>

\* the steady clock moves on while send() is in its read loop
ClockTick ==
    /\ sendAt = "reading"
    /\ sinceStartedAt < MaxReadSeconds
    /\ sinceStartedAt' = sinceStartedAt + 1
    /\ UNCHANGED <<m_data, m_socketDesc, sendAt, response, recvResult,
                   sendResult, netSends, exchanges, requestFrame>>

\* the loop is left by a break: the socket is closed and the body returned
ReturnResponse ==
    /\ m_socketDesc' = SocketAfterResponse(m_socketDesc)
    /\ sendAt' = "idle"
    /\ sendResult' = "returned"
    /\ exchanges' = exchanges + 1
    /\ UNCHANGED response

\* the loop is left by a throw
ThrowFromLoop(what) ==
    /\ sendAt' = "idle"
    /\ sendResult' = what
    /\ UNCHANGED <<m_socketDesc, exchanges, response>>

\* one iteration of the read loop
RecvLoop(result) ==
    /\ sendAt = "reading"
    /\ recvResult' = result
    /\ CASE result = "wouldBlock" ->
              CASE WouldBlock(response, sinceStartedAt) = "break" -> ReturnResponse
                [] WouldBlock(response, sinceStartedAt) = "timeout" -> ThrowFromLoop("timeout")
                [] OTHER -> UNCHANGED <<m_socketDesc, sendAt, sendResult, exchanges, response>>
         [] result = "error" -> ThrowFromLoop("recvError")
         [] result = "data" ->
              /\ Len(response) < MaxPieces
              /\ \E byteCount \in PieceSizes : response' = Append(response, byteCount)
              /\ UNCHANGED <<m_socketDesc, sendAt, sendResult, exchanges>>
         [] result = "closed" -> ReturnResponse
    /\ UNCHANGED <<m_data, sinceStartedAt, netSends, requestFrame>>

RequestNext ==
    \/ SendRequest
    \/ ClockTick
    \/ \E result \in RecvResults : RecvLoop(result)

RequestSpec == RequestInit /\ [][RequestNext]_vars

(* ---------------- lifetimes: workers and the Manager ------------------ *)
\* flushes followed
MaxVectorWorkers == 4

\* the capacities std::vector may grow to when it is full: one more
\* element at least, twice the size in the common implementations
GrowthChoices(capacity) ==
    IF capacity = 0 THEN {1} ELSE {capacity + 1, 2 * capacity}

\* a full vector allocates anew, moves its elements there, destroys the
\* moved-from objects and frees the old allocation
StorageAfterGrowth(storage) == storage + 1

\* the Manager's data members in declaration order
Members ==
    <<"m_manager", "m_exitSignal", "m_recordingStoppedSignal", "m_toggleRecording",
      "m_recordingProcessors",
      "m_hostMutex", "m_host", "m_portMutex", "m_port",
      "m_topicMutex", "m_topic",
      "m_userMapMutex", "m_userMap", "m_userTickMapMutex", "m_userTickMap",
      "m_userTickCacheMutex", "m_userTickCache",
      "m_recordingFolderMutex", "m_recordingFolders",
      "m_recordingFolderCounter", "m_generateNewRecordingFolderName">>

\* members are destroyed in reverse order of declaration
Destroyed(n) == {Members[k] : k \in (Len(Members) - n + 1) .. Len(Members)}

\* what a worker reaches through m_manager while it processes its files
\* (getHost, getPort, getChatTopic, the retry cache) ...
UsedWhileProcessing ==
    {"m_hostMutex", "m_host", "m_portMutex", "m_port", "m_topicMutex", "m_topic",
     "m_userTickCacheMutex", "m_userTickCache"}
\* ... and in recordingProcessingHasFinished
UsedWhileReporting == {"m_recordingFolderMutex", "m_recordingFolders"}

\* what becomes of a thread that has read freed or destroyed storage
UndefinedOutcomes == {"unnoticed", "crash"}

LifeInit ==
    /\ ManagerInit /\ UploadIdle /\ LoopIdle /\ LockIdle /\ TopicIdle /\ RequestIdle
    /\ SignalIdle /\ SessionIdle
    /\ vecStorage = 0
    /\ vecCapacity = 0
    /\ vecThreads = <<>>
    /\ destructorEntered = FALSE
    /\ destroyedCount = 0
    /\ crashed = FALSE

lifeFrame == <<mainVars, uploadVars, loopVars, lockVars, topicVars, requestVars, signalVars, sessionVars>>

\* m_recordingProcessors.emplace_back(this, audioFiles, &m_userTickMap): the
\* new object's constructor starts a thread on the object's address
EmplaceBack ==
    /\ ~crashed
    /\ ~destructorEntered
    /\ Len(vecThreads) < MaxVectorWorkers
    /\ IF Len(vecThreads) = vecCapacity
       THEN /\ vecStorage' = StorageAfterGrowth(vecStorage)
            /\ vecCapacity' \in GrowthChoices(vecCapacity)
       ELSE UNCHANGED <<vecStorage, vecCapacity>>
    /\ vecThreads' = Append(vecThreads,
           [this |-> vecStorage', at |-> "process", undefined |-> {}])
    /\ UNCHANGED <<destructorEntered, destroyedCount, crashed, lifeFrame>>

\* the undefined reads of a step of thread k that reaches the given members
\* of the Manager and its own members through "this"
UndefinedReads(k, members) ==
    (IF vecThreads[k].this # vecStorage THEN {"freed this"} ELSE {})
        \cup (IF members \cap Destroyed(destroyedCount) # {}
              THEN {"destroyed member"} ELSE {})

\* a step of thread k of process()
WorkerStep(k, members, next) ==
    /\ ~crashed
    /\ k \in 1 .. Len(vecThreads)
    /\ LET reads == UndefinedReads(k, members) IN
        /\ vecThreads' = [vecThreads EXCEPT ![k] =
               [@ EXCEPT !.at = next, !.undefined = @ \cup reads]]
        /\ IF reads = {}
           THEN UNCHANGED crashed
           ELSE \E outcome \in UndefinedOutcomes : crashed' = (outcome = "crash")
    /\ UNCHANGED <<vecStorage, vecCapacity, destructorEntered, destroyedCount, lifeFrame>>

\* the loop over m_files
WorkerProcesses(k) ==
    /\ k \in 1 .. Len(vecThreads)
    /\ vecThreads[k].at = "process"
    /\ WorkerStep(k, UsedWhileProcessing, "report")

\* m_manager->recordingProcessingHasFinished(m_recordingFolders), and the
\* end of the thread
WorkerReports(k) ==
    /\ k \in 1 .. Len(vecThreads)
    /\ vecThreads[k].at = "report"
    /\ WorkerStep(k, UsedWhileReporting, "done")

\* ~Manager: the exit signal is set and the detector joined
ManagerDestructor ==
    /\ ~crashed
    /\ ~destructorEntered
    /\ destructorEntered' = TRUE
    /\ UNCHANGED <<vecStorage, vecCapacity, vecThreads, destroyedCount, crashed, lifeFrame>>

\* after the destructor's body the members are destroyed one by one; the
\* destructor of m_recordingProcessors joins every worker thread
DestroyMember ==
    /\ ~crashed
    /\ destructorEntered
    /\ destroyedCount < Len(Members)
    /\ LET member == CHOOSE m \in Destroyed(destroyedCount + 1) :
                          m \notin Destroyed(destroyedCount)
       IN member = "m_recordingProcessors" =>
              \A k \in 1 .. Len(vecThreads) : vecThreads[k].at = "done"
    /\ destroyedCount' = destroyedCount + 1
    /\ UNCHANGED <<vecStorage, vecCapacity, vecThreads, destructorEntered, crashed, lifeFrame>>

LifeNext ==
    \/ EmplaceBack
    \/ \E k \in 1 .. MaxVectorWorkers : WorkerProcesses(k)
    \/ \E k \in 1 .. MaxVectorWorkers : WorkerReports(k)
    \/ ManagerDestructor
    \/ DestroyMember

LifeSpec == LifeInit /\ [][LifeNext]_vars

(* ------------------ the stop signal, statement by statement ------------ *)
\* recordings stopped in a run
MaxStops == 3

\* a flush that clears the flag after it has scanned
PushStepsResetLast == <<"test", "scan", "emplace", "reset">>
\* the statements of pushRecordingsIfAvailable in program order: the test of
\* the flag, its reset, the folder scan, the new RecordingProcessor
PushSteps == <<"test", "reset", "scan", "emplace">>

SignalInit ==
    /\ ManagerInit /\ UploadIdle /\ LoopIdle /\ LockIdle /\ TopicIdle /\ RequestIdle
    /\ LifeIdle /\ SessionIdle
    /\ iterAt = "sweep"
    /\ pushStep = 0
    /\ uncovered = 0
    /\ stopsToggled = 0
    /\ callbackAt = 0

\* everything but the stop flag and the callbacks the host owes
signalFrame ==
    <<m_userMap, m_userTickMap, m_userTickCache, m_recordingFolders,
      m_recordingFolderCounter, m_generateNewRecordingFolderName,
      m_recordingProcessors, pc, aUserWasSpeaking, hostRecording, hostFolder,
      disk, dirs, written, toggleArgs, generated, nextReq, requested,
      finalizeCount, aborted,
      uploadVars, loopVars, lockVars, topicVars, requestVars, lifeVars, sessionVars>>

\* areUsersStillTalking()
SignalSweep ==
    /\ iterAt = "sweep"
    /\ iterAt' = "toggle"
    /\ UNCHANGED <<pushStep, uncovered, stopsToggled, callbackAt,
                   m_recordingStoppedSignal, pendingStops, signalFrame>>

\* toggleRecordingIfNecessary(): on a stop edge the host stops the recording
\* and owes a stop-completion callback
SignalToggle ==
    /\ iterAt = "toggle"
    /\ \E stopEdge \in BOOLEAN :
          IF stopEdge /\ stopsToggled < MaxStops
          THEN /\ pendingStops' = pendingStops + 1
               /\ stopsToggled' = stopsToggled + 1
          ELSE UNCHANGED <<pendingStops, stopsToggled>>
    /\ iterAt' = "push"
    /\ pushStep' = 1
    /\ UNCHANGED <<uncovered, callbackAt, m_recordingStoppedSignal, signalFrame>>

\* the statement after PushSteps[pushStep], or the return
AfterPushStep ==
    IF pushStep < Len(PushSteps)
    THEN pushStep' = pushStep + 1 /\ UNCHANGED iterAt
    ELSE pushStep' = 0 /\ iterAt' = "sleep"

\* one statement of pushRecordingsIfAvailable()
SignalPush ==
    /\ iterAt = "push"
    /\ CASE PushSteps[pushStep] = "test" ->
              /\ IF m_recordingStoppedSignal
                 THEN AfterPushStep
                 ELSE pushStep' = 0 /\ iterAt' = "sleep"
              /\ UNCHANGED <<m_recordingStoppedSignal, uncovered>>
         [] PushSteps[pushStep] = "reset" ->
              /\ m_recordingStoppedSignal' = FALSE
              /\ AfterPushStep
              /\ UNCHANGED uncovered
         [] PushSteps[pushStep] = "scan" ->
              /\ uncovered' = 0
              /\ AfterPushStep
              /\ UNCHANGED m_recordingStoppedSignal
         [] PushSteps[pushStep] = "emplace" ->
              /\ AfterPushStep
              /\ UNCHANGED <<m_recordingStoppedSignal, uncovered>>
    /\ UNCHANGED <<stopsToggled, callbackAt, pendingStops, signalFrame>>

\* sleep_for(100 ms)
SignalSleep ==
    /\ iterAt = "sleep"
    /\ iterAt' = "sweep"
    /\ UNCHANGED <<pushStep, uncovered, stopsToggled, callbackAt,
                   m_recordingStoppedSignal, pendingStops, signalFrame>>

\* recordingHasStopped(userParam), on the host's thread
SignalCallback ==
    /\ pendingStops > 0
    /\ pendingStops' = pendingStops - 1
    /\ m_recordingStoppedSignal' = TRUE
    /\ uncovered' = uncovered + 1
    /\ callbackAt' = pushStep
    /\ UNCHANGED <<iterAt, pushStep, stopsToggled, signalFrame>>

\* the detector thread
SignalDetector == SignalSweep \/ SignalToggle \/ SignalPush \/ SignalSleep

SignalNext ==
    \/ SignalSweep
    \/ SignalToggle
    \/ SignalPush
    \/ SignalSleep
    \/ SignalCallback

SignalSpec == SignalInit /\ [][SignalNext]_vars

\* the detector keeps iterating
SignalFairSpec == SignalSpec /\ WF_vars(SignalDetector)

(* ------------- speech, tick fetches and recording folders ------------- *)
\* times the speaking flags may go from none set to one set
MaxEdges == 2
\* flushes that are followed
MaxSessionWorkers == 1

SessionInit ==
    /\ ManagerInit /\ UploadIdle /\ LoopIdle /\ LockIdle /\ TopicIdle /\ RequestIdle
    /\ LifeIdle /\ SignalIdle
    /\ startEdges = 0
    /\ issuedAt = <<>>
    /\ sessionOf = <<>>

sessionFrame == <<uploadVars, loopVars, lockVars, topicVars, requestVars,
                  lifeVars, signalVars>>

\* userHasJustSpoken(userID): the user's record is refreshed; a user without a
\* pending tick request gets one, a user with one keeps it
SessionSpeech(u) ==
    /\ ~aborted
    /\ UNCHANGED sessionFrame
    /\ (u \notin DOMAIN m_userTickMap) => nextReq <= MaxRequests
    /\ ~IsAUserSpeaking => startEdges < MaxEdges
    /\ m_userMap' = [m_userMap EXCEPT ![u] = [isSpeaking |-> TRUE, sinceSpoke |-> 0]]
    /\ startEdges' = IF IsAUserSpeaking THEN startEdges ELSE startEdges + 1
    /\ IF u \notin DOMAIN m_userTickMap
       THEN /\ \E answered \in BOOLEAN :
                  m_userTickMap' = (u :> NewTickRequest(nextReq, answered)) @@ m_userTickMap
            /\ nextReq' = nextReq + 1
            /\ issuedAt' = (nextReq :> startEdges') @@ issuedAt
       ELSE UNCHANGED <<m_userTickMap, nextReq, issuedAt>>
    /\ UNCHANGED <<m_userTickCache, registryVars, m_recordingStoppedSignal,
                   m_recordingProcessors, pc, aUserWasSpeaking, hostVars, diskVars,
                   written, toggleArgs, backendVars, aborted, sessionOf>>

\* areUsersStillTalking()
SessionSweep ==
    /\ ~aborted
    /\ UNCHANGED <<sessionFrame, sessionVars>>
    /\ pc = "sweep"
    /\ m_userMap' = [u \in Users |->
          IF m_userMap[u].isSpeaking /\ ~StillTalking(m_userMap[u].sinceSpoke)
          THEN [m_userMap[u] EXCEPT !.isSpeaking = FALSE]
          ELSE m_userMap[u]]
    /\ pc' = "toggle"
    /\ toggleArgs' = <<>>
    /\ UNCHANGED <<m_userTickMap, nextReq, m_userTickCache, registryVars,
                   m_recordingStoppedSignal, m_recordingProcessors,
                   aUserWasSpeaking, hostVars, diskVars, written, backendVars, aborted>>

\* toggleRecordingIfNecessary(): a recording that is started belongs to the
\* speech that is going on
SessionToggle ==
    /\ ~aborted
    /\ UNCHANGED <<sessionFrame, startEdges, issuedAt>>
    /\ pc = "toggle"
    /\ LET nowAUserIsSpeaking == IsAUserSpeaking IN
        /\ IF ToggleNeeded(aUserWasSpeaking, nowAUserIsSpeaking)
           THEN /\ IF m_generateNewRecordingFolderName
                   THEN /\ GenerateNewRecordingFolderName
                        /\ sessionOf' = (NewFolderPath(m_recordingFolderCounter)
                                            :> startEdges) @@ sessionOf
                   ELSE /\ toggleArgs' = Append(toggleArgs, NoFolder)
                        /\ HostToggleRecording(NoFolder)
                        /\ UNCHANGED <<m_recordingFolders, m_recordingFolderCounter,
                                       generated, diskVars, sessionOf>>
                /\ m_generateNewRecordingFolderName' = ~m_generateNewRecordingFolderName
           ELSE UNCHANGED <<registryVars, hostVars, toggleArgs, diskVars, sessionOf>>
        /\ aUserWasSpeaking' = nowAUserIsSpeaking
    /\ pc' = "push"
    /\ UNCHANGED <<managerUserVars, m_userTickCache, m_recordingStoppedSignal,
                   m_recordingProcessors, written, backendVars, aborted>>

\* pushRecordingsIfAvailable()
SessionPush ==
    /\ ~aborted
    /\ UNCHANGED <<sessionFrame, sessionVars>>
    /\ pc = "push"
    /\ m_recordingStoppedSignal => Len(m_recordingProcessors) < MaxSessionWorkers
    /\ IF m_recordingStoppedSignal
       THEN Flush
       ELSE UNCHANGED <<m_recordingStoppedSignal, m_recordingFolders,
                        m_recordingProcessors, m_userTickMap, aborted>>
    /\ pc' = "sleep"
    /\ UNCHANGED <<m_userMap, nextReq, m_userTickCache, m_recordingFolderCounter,
                   m_generateNewRecordingFolderName, generated, aUserWasSpeaking,
                   hostVars, diskVars, written, toggleArgs, backendVars>>

\* std::this_thread::sleep_for(100 ms)
SessionSleep ==
    /\ ~aborted
    /\ UNCHANGED <<sessionFrame, sessionVars>>
    /\ pc = "sleep"
    /\ m_userMap' = Elapse(m_userMap, SLEEP_MS)
    /\ pc' = "sweep"
    /\ UNCHANGED <<m_userTickMap, nextReq, m_userTickCache, registryVars,
                   m_recordingStoppedSignal, m_recordingProcessors,
                   aUserWasSpeaking, hostVars, diskVars, written, toggleArgs,
                   backendVars, aborted>>

\* recordingHasStopped(context)
SessionCallback ==
    /\ ~aborted
    /\ UNCHANGED <<sessionFrame, sessionVars>>
    /\ pendingStops > 0
    /\ pendingStops' = pendingStops - 1
    /\ m_recordingStoppedSignal' = TRUE
    /\ UNCHANGED <<managerUserVars, m_userTickCache, registryVars,
                   m_recordingProcessors, pc, aUserWasSpeaking, hostRecording,
                   hostFolder, diskVars, written, toggleArgs, backendVars, aborted>>

\* the host writes one recording into the folder of the running recording
SessionHostWrites(stem) ==
    /\ ~aborted
    /\ UNCHANGED <<sessionFrame, sessionVars>>
    /\ hostRecording
    /\ hostFolder # NoFolder
    /\ hostFolder[1] \in dirs
    /\ Cardinality(written) < MaxFiles
    /\ LET file == [folder |-> hostFolder[1], stem |-> stem] IN
        /\ file \notin written
        /\ disk' = disk \cup {file}
        /\ written' = written \cup {file}
    /\ UNCHANGED <<dirs, managerUserVars, m_userTickCache, registryVars,
                   m_recordingStoppedSignal, m_recordingProcessors, pc,
                   aUserWasSpeaking, hostVars, toggleArgs, backendVars, aborted>>

\* one turn of the loop of process(): steps 1 to 3, then the upload with its
\* catch block, then step 8
SessionProcess(w) ==
    /\ ~aborted
    /\ UNCHANGED <<sessionFrame, sessionVars>>
    /\ w \in Workers
    /\ LET p == m_recordingProcessors[w] IN
        /\ p.pc = "begin"
        /\ p.i <= Len(p.m_files)
        /\ LET file == p.m_files[p.i]
               folders == TrackFolder(p.m_recordingFolders, file.folder)
               tickData == ResolveTickData(m_userTickCache, p.m_userTickMap, file,
                               CHOOSE id \in ExtractUserID(file) : TRUE)
           IN IF UserResolved(p.m_userTickMap, file)
              THEN \E outcome \in UploadOutcomes :
                     /\ file \notin disk => outcome = "io"
                     /\ requested' = IF outcome = "io" THEN requested
                                     ELSE requested \cup {file}
                     /\ IF outcome \in {"completed", "rejected"}
                        THEN /\ finalizeCount' = [finalizeCount EXCEPT ![file] = @ + 1]
                             /\ m_userTickCache' =
                                    RemoveCachedUserTickData(m_userTickCache, file)
                             /\ \E removed \in BOOLEAN :
                                    disk' = DeleteFile(disk, file, removed)
                             /\ m_recordingProcessors' =
                                  [m_recordingProcessors EXCEPT ![w] =
                                    [p EXCEPT !.m_recordingFolders = folders,
                                              !.tickData = tickData,
                                              !.i = NextFile(p.i, Len(p.m_files)),
                                              !.sent = @ \cup {file}]]
                        ELSE /\ m_userTickCache' =
                                    CacheOnFailure(m_userTickCache, file, tickData)
                             /\ m_recordingProcessors' =
                                  [m_recordingProcessors EXCEPT ![w] =
                                    [p EXCEPT !.m_recordingFolders = folders,
                                              !.tickData = tickData,
                                              !.i = NextFile(p.i, Len(p.m_files)),
                                              !.failed = @ \cup {file}]]
                             /\ UNCHANGED <<finalizeCount, disk>>
              ELSE /\ m_recordingProcessors' = [m_recordingProcessors EXCEPT ![w] =
                         [p EXCEPT !.m_recordingFolders = folders,
                                   !.i = NextFile(p.i, Len(p.m_files))]]
                   /\ \E removed \in BOOLEAN : disk' = DeleteFile(disk, file, removed)
                   /\ UNCHANGED <<m_userTickCache, backendVars>>
    /\ UNCHANGED workerFrame

\* after the last file: recordingProcessingHasFinished
SessionReport(w) ==
    /\ ~aborted
    /\ UNCHANGED <<sessionFrame, sessionVars>>
    /\ w \in Workers
    /\ LET p == m_recordingProcessors[w] IN
        /\ p.pc = "begin"
        /\ p.i > Len(p.m_files)
        /\ \E io \in [Range(p.m_recordingFolders) -> ReportOutcomes] :
              /\ m_recordingFolders' = RecordingProcessingHasFinished(
                      m_recordingFolders, p.m_recordingFolders, disk, dirs, io)
              /\ dirs' = dirs \ FoldersRemovedByReport(
                      m_recordingFolders, p.m_recordingFolders, disk, dirs, io)
        /\ m_recordingProcessors' = [m_recordingProcessors EXCEPT ![w] =
              [p EXCEPT !.pc = "done"]]
    /\ UNCHANGED <<managerUserVars, m_recordingFolderCounter,
                   m_generateNewRecordingFolderName, generated,
                   m_recordingStoppedSignal, pc, aUserWasSpeaking, hostVars,
                   written, toggleArgs, aborted, m_userTickCache, disk, backendVars>>

SessionNext ==
    \/ \E u \in Users : SessionSpeech(u)
    \/ SessionSweep
    \/ SessionToggle
    \/ SessionPush
    \/ SessionSleep
    \/ SessionCallback
    \/ \E stem \in Stems : SessionHostWrites(stem)
    \/ \E w \in 1 .. MaxWorkers : SessionProcess(w)
    \/ \E w \in 1 .. MaxWorkers : SessionReport(w)

SessionSpec == SessionInit /\ [][SessionNext]_vars

(* ============================ properties ============================== *)
DetectorToggles == pc = "toggle" /\ pc' = "push"

SameRegistry == UNCHANGED <<m_recordingFolders, m_recordingFolderCounter,
                            m_generateNewRecordingFolderName, generated>>

\* C3: an iteration of the detector invokes the host toggle exactly once when
\* the aggregate "a user is speaking" differs from the value the previous
\* iteration saw (initially false); when it is unchanged the host toggle is
\* not invoked, no folder is generated and the registry is left alone.
C3_ToggleOncePerEdge ==
    [][DetectorToggles =>
          /\ (aUserWasSpeaking # IsAUserSpeaking) =>
                /\ Len(toggleArgs') = 1
                /\ hostRecording' = ~hostRecording
          /\ (aUserWasSpeaking = IsAUserSpeaking) =>
                /\ Len(toggleArgs') = 0
                /\ SameRegistry
                /\ UNCHANGED hostVars
          /\ aUserWasSpeaking' = IsAUserSpeaking]_vars

\* a stop edge has just been toggled after a start edge of the same run
C3_Witness ==
    /\ pc = "push"
    /\ Len(toggleArgs) = 1
    /\ ~aUserWasSpeaking
    /\ Len(generated) = 1
    /\ pendingStops = 1

AllDistinct(s) == \A a, b \in 1 .. Len(s) : a # b => s[a] # s[b]

\* C8: a folder path is generated, and a folder in state Recording added to
\* the registry, only in an iteration where the aggregate goes false to true;
\* a true-to-false edge toggles with the empty folder string; no two
\* generated paths of one run are equal.
C8_FolderOnlyOnStartEdge ==
    /\ [](AllDistinct(generated))
    /\ [][/\ (generated' # generated \/ m_recordingFolderCounter' # m_recordingFolderCounter) =>
               /\ DetectorToggles
               /\ ~aUserWasSpeaking /\ IsAUserSpeaking
               /\ Len(generated') = Len(generated) + 1
               /\ Len(m_recordingFolders') = Len(m_recordingFolders) + 1
               /\ m_recordingFolders'[Len(m_recordingFolders')] =
                     [recordingFolder |-> generated'[Len(generated')],
                      state |-> "Recording"]
               /\ toggleArgs' = <<FolderArg(generated'[Len(generated')])>>
          /\ (DetectorToggles /\ ~aUserWasSpeaking /\ IsAUserSpeaking) =>
               Len(generated') = Len(generated) + 1
          /\ (DetectorToggles /\ aUserWasSpeaking /\ ~IsAUserSpeaking) =>
               /\ toggleArgs' = <<NoFolder>>
               /\ generated' = generated
               /\ Len(m_recordingFolders') = Len(m_recordingFolders)]_vars

\* two start edges and a stop edge have been seen, two paths generated
C8_Witness ==
    /\ Len(generated) = 2
    /\ generated[1] # generated[2]
    /\ pc = "push"
    /\ toggleArgs = <<FolderArg(generated[2])>>
    /\ pendingStops + (IF m_recordingStoppedSignal THEN 1 ELSE 0) >= 1

(* ------------------------- upload worker ------------------------------ *)
Processor(w) == m_recordingProcessors[w]
Running(w) == Processor(w).pc # "done"
FoldersOf(files) == {files[k].folder : k \in 1 .. Len(files)}
Registered(folder) == \E k \in 1 .. Len(m_recordingFolders) :
                          m_recordingFolders[k].recordingFolder = folder
StateOf(reg, folder) ==
    reg[CHOOSE k \in 1 .. Len(reg) : reg[k].recordingFolder = folder].state

\* worker w ends its pass in this step
PassEnds(w) ==
    /\ w \in Workers
    /\ Running(w)
    /\ m_recordingProcessors'[w].pc = "done"

\* C1: the backend receives at most one finalize call per file that
\* completed without a thrown failure, whatever transport, I/O and deletion
\* failures occur; a file finalized once is never uploaded again.
C1_ExactlyOnce == \A f \in File : finalizeCount[f] <= 1

\* C2 as stated: after a pass every file of its list is either gone from
\* disk with its upload confirmed, or still on disk with a RetryCache entry.
C2_DeletedOrCached ==
    [][\A w \in 1 .. MaxWorkers : PassEnds(w) =>
          \A f \in Range(Processor(w).m_files) :
             \/ f \notin disk' /\ finalizeCount'[f] >= 1
             \/ f \in disk' /\ f \in DOMAIN m_userTickCache']_vars

\* C2 as amended: after a pass, every file of its list whose upload attempt
\* threw is still on disk with a RetryCache entry (never absent from disk or
\* from the cache); every file whose upload completed has no RetryCache
\* entry; every other file of the list (its user ID was not resolved) was
\* neither uploaded nor cached by this pass.
C2_FailedKeptAndCached ==
    [][\A w \in 1 .. MaxWorkers : PassEnds(w) =>
          \A f \in Range(Processor(w).m_files) :
             /\ f \in Processor(w).failed =>
                   f \in disk' /\ f \in DOMAIN m_userTickCache'
             /\ f \in Processor(w).sent =>
                   f \notin DOMAIN m_userTickCache' /\ finalizeCount'[f] >= 1
             /\ f \notin Processor(w).failed \cup Processor(w).sent =>
                   ~UserResolved(Processor(w).m_userTickMap, f)]_vars

\* a pass has ended that had a failed file, kept on disk and cached, next to
\* a file whose user could not be resolved
C2_Witness ==
    \E w \in Workers :
        /\ ~Running(w)
        /\ \E f \in Processor(w).failed : f \in disk /\ f \in DOMAIN m_userTickCache
        /\ \E f \in Range(Processor(w).m_files) :
              f \notin Processor(w).failed \cup Processor(w).sent

\* C4: a recording folder is processed by at most one upload worker at a
\* time: a flush never returns a folder in state Processing, and no two
\* running workers hold files of the same folder.
C4_OneWorkerPerFolder ==
    /\ [](\A v, w \in Workers :
            (v # w /\ Running(v) /\ Running(w)) =>
               /\ FoldersOf(Processor(v).m_files) \cap FoldersOf(Processor(w).m_files) = {}
               /\ Processor(v).scanned \cap Processor(w).scanned = {})
    /\ [][Len(m_recordingProcessors') > Len(m_recordingProcessors) =>
            \A folder \in m_recordingProcessors'[Len(m_recordingProcessors')].scanned :
               /\ Registered(folder)
               /\ StateOf(m_recordingFolders, folder) # "Processing"
               /\ StateOf(m_recordingFolders', folder) = "Processing"]_vars

\* two workers of successive flushes run at the same time, each with a file
C4_Witness ==
    /\ Len(m_recordingProcessors) = 2
    /\ Running(1) /\ Running(2)
    /\ Processor(1).m_files # <<>> /\ Processor(2).m_files # <<>>
    /\ Processor(1).i <= Len(Processor(1).m_files)

\* the registry entries a worker reports in this step
ReportedNow(w, k) ==
    /\ PassEnds(w)
    /\ k \in 1 .. Len(m_recordingFolders)
    /\ m_recordingFolders[k].recordingFolder \in Range(Processor(w).m_recordingFolders)

\* C5 as stated: a reported folder becomes FinishedProcessingSuccessfully if
\* and only if its directory is empty at that moment.
C5_SuccessIffEmpty ==
    [][\A w \in 1 .. MaxWorkers : \A k \in 1 .. MaxFolders : ReportedNow(w, k) =>
          (m_recordingFolders'[k].state = "FinishedProcessingSuccessfully"
              <=> FilesIn(m_recordingFolders[k].recordingFolder) = {})]_vars

\* C5 as amended: a reported folder becomes FinishedProcessingSuccessfully
\* if and only if its directory is found empty and its removal succeeds; in
\* every other case it becomes FinishedProcessingUnsuccessfully; in both
\* cases it stays in the registry.
C5_SuccessIffEmptyAndRemoved ==
    [][\A w \in 1 .. MaxWorkers : \A k \in 1 .. MaxFolders : ReportedNow(w, k) =>
          /\ Len(m_recordingFolders') = Len(m_recordingFolders)
          /\ m_recordingFolders'[k].recordingFolder = m_recordingFolders[k].recordingFolder
          /\ m_recordingFolders'[k].state \in
                {"FinishedProcessingSuccessfully", "FinishedProcessingUnsuccessfully"}
          /\ m_recordingFolders'[k].state = "FinishedProcessingSuccessfully"
                <=> /\ FilesIn(m_recordingFolders[k].recordingFolder) = {}
                    /\ m_recordingFolders[k].recordingFolder \in dirs
                    /\ m_recordingFolders[k].recordingFolder \notin dirs']_vars

\* a reported folder is empty but still on disk, and marked unsuccessful
C5_Witness ==
    \E k \in 1 .. Len(m_recordingFolders) :
        /\ m_recordingFolders[k].state = "FinishedProcessingUnsuccessfully"
        /\ FilesIn(m_recordingFolders[k].recordingFolder) = {}
        /\ m_recordingFolders[k].recordingFolder \in dirs
        /\ \E w \in Workers :
              /\ ~Running(w)
              /\ m_recordingFolders[k].recordingFolder \in Range(Processor(w).m_recordingFolders)

\* the files a step adds to the failed set of a worker
NewlyFailed(w) ==
    IF w \in Workers
    THEN m_recordingProcessors'[w].failed \ Processor(w).failed
    ELSE {}

\* C6: the RetryCache keys a pass contributes are exactly the files of its
\* list whose upload attempt failed in that pass, and the successful upload
\* of a file that has a RetryCache entry removes the entry.
C6_CacheIsFailedFiles ==
    [][/\ \A f \in File :
            (f \in DOMAIN m_userTickCache' /\
               (f \notin DOMAIN m_userTickCache \/ m_userTickCache'[f] # m_userTickCache[f]))
            => \E w \in 1 .. MaxWorkers : f \in NewlyFailed(w)
       /\ \A w \in 1 .. MaxWorkers : \A f \in NewlyFailed(w) :
            /\ f \in Range(Processor(w).m_files)
            /\ f \in DOMAIN m_userTickCache'
            /\ <<m_userTickCache'[f]>> = Processor(w).tickData
       /\ \A w \in 1 .. MaxWorkers :
            (w \in Workers /\ Processor(w).pc = "sent" /\ m_recordingProcessors'[w].pc # "sent")
            => Processor(w).m_files[Processor(w).i] \notin DOMAIN m_userTickCache']_vars

\* a file that failed in one pass was sent by a later one, its entry is gone
C6_Witness ==
    \E v, w \in Workers : \E f \in File :
        /\ f \in Processor(v).failed
        /\ f \in Processor(w).sent
        /\ Processor(w).pc = "begin"
        /\ f \notin DOMAIN m_userTickCache

\* the holders of tick request r: 0 is the Manager's map, w a worker's
Holders(r) ==
    {h \in {0} : \E u \in DOMAIN m_userTickMap : m_userTickMap[u].request = r}
    \cup {w \in Workers : \E u \in DOMAIN Processor(w).m_userTickMap :
                            Processor(w).m_userTickMap[u].request = r}

\* C7: a flush moves every entry of the Manager's pending tick-request map
\* into the one new upload worker and leaves the Manager's map empty; every
\* request ever issued is held by exactly one of the Manager and the
\* workers, so none is lost or duplicated by frames around the transfer.
C7_TickMapMoved ==
    /\ [](\A r \in 1 .. (nextReq - 1) : Cardinality(Holders(r)) = 1)
    /\ [][Len(m_recordingProcessors') > Len(m_recordingProcessors) =>
            /\ Len(m_recordingProcessors') = Len(m_recordingProcessors) + 1
            /\ m_recordingProcessors'[Len(m_recordingProcessors')].m_userTickMap = m_userTickMap
            /\ DOMAIN m_userTickMap' = {}]_vars

\* after a transfer a frame of the same user has made a fresh entry
C7_Witness ==
    \E w \in Workers : \E u \in DOMAIN m_userTickMap :
        /\ u \in DOMAIN Processor(w).m_userTickMap
        /\ Processor(w).m_userTickMap[u].request # m_userTickMap[u].request

\* the base name starts with a decimal digit
StartsWithDigit(file) == Len(file.stem) > 0 /\ file.stem[1] \in Digits

\* C9: no create, chunk or finalize request is sent for a file whose base
\* name does not start with a parseable non-negative decimal integer.
C9_UnparseableNeverUploaded ==
    \A f \in File : ~StartsWithDigit(f) => (f \notin requested /\ finalizeCount[f] = 0)

\* a pass is over whose list held such a file next to one that was uploaded
C9_Witness ==
    \E w \in Workers :
        /\ ~Running(w)
        /\ \E f \in Range(Processor(w).m_files) : ~StartsWithDigit(f)
        /\ \E f \in Range(Processor(w).m_files) : f \in requested

\* C10: a folder in state Processing belongs to a flush whose worker has not
\* yet reported: once the worker of the flush that marked it has ended its
\* pass, the folder is no longer Processing.
C10_LeavesProcessing ==
    ~aborted =>
       \A k \in 1 .. Len(m_recordingFolders) :
          m_recordingFolders[k].state = "Processing" =>
             \E w \in Workers :
                /\ Running(w)
                /\ m_recordingFolders[k].recordingFolder \in Processor(w).scanned

(* ------------------------- speech detection --------------------------- *)
\* the detector's sweep is this step
Sweeps == pc = "sweep" /\ pc' = "toggle"

\* C13: a sweep clears the speaking flag of every flagged user whose last
\* frame is at least USER_SPEAKING_TIMEOUT old and keeps the flag of every
\* flagged user whose last frame is younger; the flag is cleared by nothing
\* else; a speech frame sets the user's flag at once, whatever it was.
C13_SpeakingTimeout ==
    [][\A u \in Users :
          /\ (Sweeps /\ m_userMap[u].isSpeaking) =>
                (m_userMap'[u].isSpeaking
                    <=> m_userMap[u].sinceSpoke < USER_SPEAKING_TIMEOUT)
          /\ (Sweeps /\ ~m_userMap[u].isSpeaking) => ~m_userMap'[u].isSpeaking
          /\ (m_userMap[u].isSpeaking /\ ~m_userMap'[u].isSpeaking) =>
                (Sweeps /\ m_userMap[u].sinceSpoke >= USER_SPEAKING_TIMEOUT)
          /\ (pc' = pc /\ (m_userMap'[u] # m_userMap[u]
                             \/ (u \notin DOMAIN m_userTickMap /\ u \in DOMAIN m_userTickMap'))) =>
                /\ m_userMap'[u].isSpeaking
                /\ m_userMap'[u].sinceSpoke = 0]_vars

\* a sweep has just cleared one user, who had spoken, and kept another, whose
\* frame came after the sleep
C13_Witness ==
    /\ pc = "toggle"
    /\ \E u, v \in Users :
          /\ u \in DOMAIN m_userTickMap
          /\ ~m_userMap[u].isSpeaking
          /\ aUserWasSpeaking
          /\ m_userMap[v].isSpeaking
          /\ m_userMap[v].sinceSpoke < USER_SPEAKING_TIMEOUT

\* a tick request is issued for user u in this step
RequestIssued(u) == u \notin DOMAIN m_userTickMap /\ u \in DOMAIN m_userTickMap'

\* C14: every active speech interval of a user (from the frame that sets the
\* cleared flag to the sweep that clears it) issues exactly one tick request
\* for that user: the frame that opens the interval issues one, the further
\* frames of the interval issue none.
C14_OneRequestPerInterval ==
    [][\A u \in Users :
          /\ (~m_userMap[u].isSpeaking /\ m_userMap'[u].isSpeaking) => RequestIssued(u)
          /\ (m_userMap[u].isSpeaking /\ m_userMap'[u].isSpeaking) => ~RequestIssued(u)]_vars

(* ------------------------ per-file isolation -------------------------- *)
\* the files of worker w's list that the loop has dealt with
Handled(w) ==
    Processor(w).failed \cup Processor(w).sent
        \cup {f \in Range(Processor(w).m_files) : ~UserResolved(Processor(w).m_userTickMap, f)}

\* C15: whatever the outcome of a file (user ID not extracted or unknown,
\* tick fetch failed, I/O or transport failure, deletion failure), the
\* worker goes on to the next file of its list: the index moves one file at
\* a time, only on an outcome of the current file, and the pass ends only
\* after the last file, every file of the list having been dealt with.
C15_PerFileIsolation ==
    /\ [](\A w \in Workers :
            /\ Processor(w).i \in 1 .. (Len(Processor(w).m_files) + 1)
            /\ \A k \in 1 .. (Processor(w).i - 1) : Processor(w).m_files[k] \in Handled(w)
            /\ Processor(w).pc \in {"begin", "upload", "sent", "done"}
            /\ Processor(w).pc \in {"upload", "sent"} =>
                  Processor(w).i <= Len(Processor(w).m_files))
    /\ [][\A w \in 1 .. MaxWorkers : w \in Workers =>
            /\ m_recordingProcessors'[w].m_files = Processor(w).m_files
            /\ m_recordingProcessors'[w].i \in {Processor(w).i, Processor(w).i + 1}
            /\ PassEnds(w) =>
                  /\ Processor(w).i = Len(Processor(w).m_files) + 1
                  /\ Handled(w) = Range(Processor(w).m_files)
            /\ ~Running(w) => m_recordingProcessors'[w] = Processor(w)]_vars

\* a pass whose first file failed has sent its second file
C15_Witness ==
    \E w \in Workers :
        /\ Len(Processor(w).m_files) = 2
        /\ Processor(w).m_files[1] \in Processor(w).failed
        /\ Processor(w).m_files[2] \in Processor(w).sent
        /\ ~Running(w)

(* ------------------------------ retry --------------------------------- *)
\* worker w takes up the file at its index in this step
TakesUp(w) ==
    /\ w \in Workers
    /\ Processor(w).pc = "begin"
    /\ Processor(w).i <= Len(Processor(w).m_files)
    /\ m_recordingProcessors'[w] # Processor(w)

\* C20: a file left on disk with a RetryCache entry after a failed upload
\* is, when a later flush's worker takes it up, neither deleted nor skipped:
\* it goes to upload with the cached tick data, whether or not its user has
\* a pending request in the worker's snapshot (a snapshot that is not empty,
\* as the constructor asserts).
C20_RetriedWithCachedTickData ==
    [][\A w \in 1 .. MaxWorkers :
          (/\ TakesUp(w)
           /\ DOMAIN Processor(w).m_userTickMap # {}
           /\ Processor(w).m_files[Processor(w).i] \in DOMAIN m_userTickCache
           /\ Processor(w).m_files[Processor(w).i] \in disk) =>
             /\ Processor(w).m_files[Processor(w).i] \in disk'
             /\ m_recordingProcessors'[w].pc = "upload"
             /\ m_recordingProcessors'[w].tickData =
                   <<m_userTickCache[Processor(w).m_files[Processor(w).i]]>>]_vars

(* ------------------ one file, request by request ---------------------- *)
\* the requests of a complete upload, in order
FullRequests(chunks, id, tickData) ==
    <<CreateRequest(Len(chunks))>>
        \o [k \in 1 .. Len(chunks) |-> ChunkRequest(id, k - 1, chunks[k])]
        \o <<FinalizeRequest(id, tickData)>>

IsPrefix(s, t) == Len(s) <= Len(t) /\ \A k \in 1 .. Len(s) : s[k] = t[k]

\* the work on the file has ended
UploadOver == uploadAt \in {"done", "failed"}

\* C11 as stated: after create, every chunk upload and finalize completed,
\* the file's RetryCache entry is gone and the file is deleted.
C11_SentThenDeleted ==
    uploadAt = "done" =>
        /\ UploadFile \notin DOMAIN cachedTickData
        /\ ~fileOnDisk

\* C11 as amended: when create, every chunk upload and finalize completed,
\* the worker has sent exactly the requests of a complete upload, the file's
\* RetryCache entry is gone and the deletion of the file has been attempted
\* (the file is deleted at no other point); when reading the file, create, a
\* chunk upload or finalize throws, the request that threw is the last one
\* sent for the file, the file is still on disk, and the tick data resolved
\* for it is the RetryCache entry of its path.
C11_SentOrCached ==
    /\ [](uploadAt = "done" =>
            /\ uploadRequests = FullRequests(audioChunks, fileID, uploadTickData[1])
            /\ UploadFile \notin DOMAIN cachedTickData)
    /\ [](uploadAt # "done" => fileOnDisk)
    /\ [](uploadThrew # "" =>
            /\ uploadAt = "failed"
            /\ fileOnDisk
            /\ UploadFile \in DOMAIN cachedTickData
            /\ <<cachedTickData[UploadFile]>> = uploadTickData)
    /\ [](uploadAt = "failed" <=> uploadThrew # "")
    /\ [](IsPrefix(uploadRequests,
                   FullRequests(audioChunks, fileID,
                                IF uploadTickData = <<>> THEN NoTickData
                                ELSE uploadTickData[1]))
            \/ (fileID = "" /\ uploadRequests = <<CreateRequest(Len(audioChunks))>>))
    /\ [][UploadOver => \/ UNCHANGED uploadVars
                      \/ (uploadFileNo' = uploadFileNo + 1 /\ UNCHANGED uploadLog)]_vars

\* the second chunk upload threw: three requests were sent, the file is on
\* disk and tick data 7 / 42 is cached under its path
C11_Witness ==
    /\ uploadAt = "failed"
    /\ uploadThrew = "chunk"
    /\ Len(uploadRequests) = 3
    /\ uploadRequests[3].path = "/fileChunk"
    /\ uploadRequests[3].n = 1
    /\ fileOnDisk
    /\ cachedTickData = SetCachedUserTickData(EmptyMap, UploadFile, ExampleTickData)

\* the sizes of the chunk bodies sent so far
ChunkBodies ==
    LET chunkRequests == SelectSeq(uploadRequests, LAMBDA r : r.path = "/fileChunk")
    IN [k \in 1 .. Len(chunkRequests) |-> chunkRequests[k].body]

CountOf(path) == Len(SelectSeq(uploadRequests, LAMBDA r : r.path = path))

\* the documented example: 250 001 bytes, tickId 7, elapsed 42, uploaded
ExampleUploaded ==
    /\ uploadAt = "done"
    /\ audioFileSize = 250001
    /\ uploadTickData = <<ExampleTickData>>

\* C12 as stated: the example file is uploaded as 3 chunks of 100000, 100000
\* and 1 bytes, with one create, three chunk and one finalize call whose URL
\* ends with ?tickId=7&elapsed=42.
C12_ExampleChunksDecimal ==
    ExampleUploaded =>
        /\ ChunkBodies = <<100000, 100000, 1>>
        /\ CountOf("/createFile") = 1
        /\ CountOf("/fileChunk") = 3
        /\ CountOf("/chat/sendTranscribedAudioFile/from") = 1
        /\ uploadRequests[Len(uploadRequests)].query = << <<"tickId", 7>>, <<"elapsed", 42>> >>

\* C12 as amended: the example file is uploaded as 3 chunks of 102400,
\* 102400 and 45201 bytes, through one create call announcing 3 chunks,
\* three chunk calls and one finalize call, the last request, whose URL ends
\* with ?tickId=7&elapsed=42.
C12_ExampleChunks ==
    ExampleUploaded =>
        /\ ChunkBodies = <<102400, 102400, 45201>>
        /\ CountOf("/createFile") = 1
        /\ uploadRequests[1] = CreateRequest(3)
        /\ CountOf("/fileChunk") = 3
        /\ CountOf("/chat/sendTranscribedAudioFile/from") = 1
        /\ uploadRequests[Len(uploadRequests)].path = "/chat/sendTranscribedAudioFile/from"
        /\ uploadRequests[Len(uploadRequests)].query = << <<"tickId", 7>>, <<"elapsed", 42>> >>

\* the example file has been uploaded with the tick data of the pending request
C12_Witness ==
    /\ ExampleUploaded
    /\ pendingTickData = ExampleTickData
    /\ Len(uploadRequests) = 5

(* ------------------------- detector lifetime -------------------------- *)
\* C16: a failure of the host toggle call, of the folder-name generation, of
\* the folder scan or of the spawning of a worker is absorbed: the call
\* returns to the loop, which goes on to its next call.
C16_FailuresAbsorbed ==
    [][/\ periodicAt = "toggle" => periodicAt' \in {"toggle", "push"}
       /\ periodicAt = "push" => periodicAt' \in {"push", "sleep"}]_vars

\* C17: once the destructor has set the exit flag, the loop condition check
\* that follows ends the loop, no iteration is begun after it, and the
\* destructor's join completes, unless the iteration in progress does not
\* return.
C17_ExitObserved ==
    /\ [][(managerLife \in {"joining", "joined"} /\ periodicAt = "test") =>
             periodicAt' \in {"test", "ended"}]_vars
    /\ [][periodicAt = "ended" => periodicAt' = "ended"]_vars
    /\ [](managerLife = "joined" => periodicAt = "ended")
    /\ (managerLife = "joining") ~> (managerLife = "joined" \/ periodicAt = "terminated")

\* the destructor's join has completed after the loop had run an iteration
\* and absorbed a failure
C17_Witness ==
    /\ managerLife = "joined"
    /\ periodicAt = "ended"
    /\ iterations >= 1
    /\ absorbed >= 1

(* ------------------------------ locking ------------------------------- *)
\* C18 as stated: a thread holds two of the Manager's locks at the same time
\* only inside userHasJustSpoken, where the speaking-map lock is taken first
\* and the tick-map lock second.
C18_OnlyUserHasJustSpokenNests ==
    \A t \in Threads :
        Len(lockHeld[t]) >= 2 =>
            /\ lockOp[t].name = "userHasJustSpoken"
            /\ SubSeq(lockHeld[t], 1, 2) = <<"userMap", "userTickMap">>

\* C18 as amended: a thread holds more than one of the Manager's locks only
\* in userHasJustSpoken, which takes the speaking-map lock, then the
\* tick-map lock and, holding both, the host lock or the port lock (one at a
\* time) when it issues a tick request, and in the flush of
\* pushRecordingsIfAvailable, which takes the folder-registry lock while it
\* holds the tick-map lock; the orders are fixed and no other operation
\* acquires a lock while holding one.
C18_NestedLocks ==
    \A t \in Threads :
        Len(lockHeld[t]) >= 2 =>
            \/ /\ lockOp[t].name = "userHasJustSpoken"
               /\ lockHeld[t] \in {<<"userMap", "userTickMap">>,
                                   <<"userMap", "userTickMap", "host">>,
                                   <<"userMap", "userTickMap", "port">>}
            \/ /\ lockOp[t].name = "pushRecordingsIfAvailable"
               /\ lockHeld[t] = <<"userTickMap", "recordingFolder">>

\* the detector scans inside its flush while the frame callback, with the
\* speaking-map lock, waits for the tick-map lock
C18_Witness ==
    /\ lockHeld["detector"] = <<"userTickMap", "recordingFolder">>
    /\ lockHeld["frame"] = <<"userMap">>
    /\ lockOp["frame"].name = "userHasJustSpoken"

(* ------------------------------ the topic ------------------------------ *)
Alphanumeric == (48 .. 57) \cup (65 .. 90) \cup (97 .. 122)

FirstAlphanumerics(str, n) ==
    LET kept == SelectSeq(str, LAMBDA chr : chr \in Alphanumeric)
    IN  SubSeq(kept, 1, IF Len(kept) < n THEN Len(kept) ELSE n)

\* C19: after any sequence of setChatTopic calls the topic that getChatTopic
\* returns has only the characters 0-9, A-Z, a-z, is at most 100 long and is
\* the first (up to) 100 alphanumeric characters of the last argument in
\* their order; sanitising a sanitised string returns it unchanged.
C19_TopicSanitised ==
    /\ \A k \in 1 .. Len(getChatTopic) : getChatTopic[k] \in Alphanumeric
    /\ Len(getChatTopic) <= 100
    /\ topicArg # <<>> => getChatTopic = FirstAlphanumerics(topicArg[1], 100)
    /\ sanitiseString(getChatTopic) = getChatTopic

\* a topic cut at 100 from an argument with more alphanumeric characters
\* than that and others between them
C19_Witness ==
    /\ topicArg # <<>>
    /\ Len(getChatTopic) = 100
    /\ Len(SelectSeq(topicArg[1], LAMBDA chr : chr \in Alphanumeric)) > 100
    /\ \E k \in 1 .. Len(topicArg[1]) : topicArg[1][k] \notin Alphanumeric

(* ---------------------------- the registry ---------------------------- *)
\* the detector runs the flush of pushRecordingsIfAvailable in this step
FlushStep == pc = "push" /\ m_recordingStoppedSignal /\ pc' = "sleep"

EntryOf(reg, folder) ==
    {reg[k] : k \in {j \in 1 .. Len(reg) : reg[j].recordingFolder = folder}}

\* C21: getRecordingFoldersToScan returns exactly the registered folders
\* whose state is Recording or FinishedProcessingUnsuccessfully, sets each
\* of them to Processing, erases every FinishedProcessingSuccessfully folder
\* and leaves the folders already in Processing as they are; no step erases
\* a folder in any other state than FinishedProcessingSuccessfully.
C21_FoldersToScan ==
    [][ /\ FlushStep =>
            LET reg == m_recordingFolders
                returned == {reg[k].recordingFolder : k \in {j \in 1 .. Len(reg) :
                                reg[j].state \in {"Recording",
                                                  "FinishedProcessingUnsuccessfully"}}}
            IN  /\ Len(m_recordingProcessors') = Len(m_recordingProcessors) + 1
                /\ m_recordingProcessors'[Len(m_recordingProcessors')].scanned = returned
                /\ \A k \in 1 .. Len(reg) :
                      LET after == EntryOf(m_recordingFolders', reg[k].recordingFolder)
                      IN  CASE reg[k].state = "FinishedProcessingSuccessfully" ->
                                  after = {}
                            [] reg[k].state = "Processing" -> after = {reg[k]}
                            [] OTHER -> after = {[reg[k] EXCEPT !.state = "Processing"]}
                /\ \A k \in 1 .. Len(m_recordingFolders') :
                      EntryOf(reg, m_recordingFolders'[k].recordingFolder) # {}
        /\ \A k \in 1 .. Len(m_recordingFolders) :
              EntryOf(m_recordingFolders', m_recordingFolders[k].recordingFolder) = {}
                  => m_recordingFolders[k].state = "FinishedProcessingSuccessfully"
      ]_vars

\* the second flush has erased the first session's folder, emptied by the
\* first worker, and returned the second session's folder
C21_Witness ==
    /\ Len(generated) = 2
    /\ Len(m_recordingProcessors) = 2
    /\ Processor(2).pc = "begin" /\ Processor(2).i = 1
    /\ Processor(2).scanned = {generated[2]}
    /\ EntryOf(m_recordingFolders, generated[1]) = {}
    /\ EntryOf(m_recordingFolders, generated[2]) =
          {[recordingFolder |-> generated[2], state |-> "Processing"]}

\* C22: a flush never scans a folder whose recording session is still in
\* progress: no folder the scan marks Processing is the folder the host is
\* recording into, also when the stop-completion callback comes late.
C22_FlushSparesRunningSession ==
    [][ FlushStep =>
            \A folder \in m_recordingProcessors'[Len(m_recordingProcessors')].scanned :
                ~(hostRecording /\ hostFolder = FolderArg(folder))
      ]_vars

\* C23: at every flush the pending tick-request map handed to the new
\* RecordingProcessor is non-empty, so the assertion of its constructor
\* holds.
C23_TickMapNonEmptyAtFlush ==
    [][ FlushStep =>
            /\ DOMAIN m_userTickMap # {}
            /\ DOMAIN m_recordingProcessors'[Len(m_recordingProcessors')].m_userTickMap # {}
            /\ ~aborted'
      ]_vars

(* -------------------------- order of requests ------------------------- *)
\* the requests of the file in work whose path is `path`, as positions
PositionsOf(path) == {k \in 1 .. Len(uploadRequests) : uploadRequests[k].path = path}

\* C24: for each file one create call comes first; then, only after it
\* returned a file identifier, one chunk upload per chunk with the indices
\* 0, 1, ..., n-1 in increasing order, each with that identifier; then
\* exactly one finalize call after the last chunk; no chunk or finalize
\* request is sent when the create call fails; and all requests of one file
\* come before all requests of the next file of the worker.
C24_RequestOrder ==
    /\ [](uploadRequests # <<>> =>
            /\ PositionsOf("/createFile") = {1}
            /\ uploadRequests[1].method = "PUT")
    /\ [](\A k \in PositionsOf("/fileChunk") :
            /\ fileID \in FileIDs
            /\ uploadRequests[k].id = fileID
            /\ uploadRequests[k].n = k - 2
            /\ k - 2 < Len(audioChunks))
    /\ [](\A k \in PositionsOf("/chat/sendTranscribedAudioFile/from") :
            /\ fileID \in FileIDs
            /\ uploadRequests[k].id = fileID
            /\ k = Len(audioChunks) + 2
            /\ k = Len(uploadRequests))
    /\ [](uploadAt = "done" =>
            /\ Cardinality(PositionsOf("/createFile")) = 1
            /\ Cardinality(PositionsOf("/fileChunk")) = Len(audioChunks)
            /\ Cardinality(PositionsOf("/chat/sendTranscribedAudioFile/from")) = 1)
    /\ [](uploadThrew = "create" => Len(uploadRequests) = 1 /\ fileID = "")
    /\ [][uploadThrew = "create" => UNCHANGED uploadRequests \/ uploadRequests' = <<>>]_vars
    /\ [](\A j, k \in 1 .. Len(uploadLog) : j < k => uploadLog[j] <= uploadLog[k])
    /\ [][Len(uploadLog') > Len(uploadLog) =>
            /\ uploadLog' = Append(uploadLog, uploadFileNo)
            /\ uploadRequests' = Append(uploadRequests, uploadRequests'[Len(uploadRequests')])
       ]_vars

\* the second file of the list has been uploaded in three chunks after the
\* first one, whose create call failed
C24_Witness ==
    /\ uploadFileNo = 2
    /\ uploadAt = "done"
    /\ uploadLog = <<1, 2, 2, 2, 2, 2>>
    /\ Len(uploadRequests) = 5

(* ----------------------------- chunk sizes ---------------------------- *)
RECURSIVE SumOf(_)
SumOf(sizes) == IF sizes = <<>> THEN 0 ELSE Head(sizes) + SumOf(Tail(sizes))

\* the chunks of the file in work have been read
ChunksRead == uploadRequests # <<>>

\* ceil(s / 102400) chunks of 102400 bytes, the last one holding the rest,
\* announced by the create call; an empty file gets a create and a finalize
\* call and nothing else
ChunkArithmetic ==
    /\ ChunksRead =>
          LET n == Len(audioChunks)
              s == audioFileSize
          IN  /\ 102400 * (n - 1) < s /\ s <= 102400 * n
              /\ \A k \in 1 .. (n - 1) : audioChunks[k] = 102400
              /\ n > 0 => /\ audioChunks[n] = s - 102400 * (n - 1)
                          /\ audioChunks[n] \in 1 .. 102400
              /\ SumOf(audioChunks) = s
              /\ uploadRequests[1].path = "/createFile"
              /\ uploadRequests[1].n = n
    /\ (uploadAt \in {"sent", "done"} /\ audioFileSize = 0) =>
          /\ audioChunks = <<>>
          /\ Len(uploadRequests) = 2
          /\ uploadRequests[1] = CreateRequest(0)
          /\ uploadRequests[2].path = "/chat/sendTranscribedAudioFile/from"

\* C25 as stated: ceil(s / 102400) chunks, all of 102400 bytes but the last,
\* which has the rest (1 to 102400 bytes), sizes summing to s, the count
\* announced by the create call; a zero-byte file gives zero chunks, gets a
\* create and a finalize call, and is then deleted.
C25_ChunksThenDeleted ==
    /\ ChunkArithmetic
    /\ (uploadAt = "done" /\ audioFileSize = 0) => ~fileOnDisk

\* C25 as amended: the same chunk arithmetic; a zero-byte file gives zero
\* chunks, gets a create and a finalize call, and its deletion is then
\* attempted, the file being deleted at no earlier point.
C25_Chunks ==
    /\ ChunkArithmetic
    /\ uploadAt # "done" => fileOnDisk

\* a zero-byte file went through create and finalize, then a file of one
\* chunk and a byte went through create, two chunks and finalize, and was
\* deleted
C25_Witness ==
    /\ uploadLog = <<1, 1, 2, 2, 2, 2>>
    /\ uploadAt = "done"
    /\ audioFileSize = CHUNK_SIZE + 1
    /\ audioChunks = <<102400, 1>>
    /\ ~fileOnDisk

(* ----------------------- cached tick data first ----------------------- *)
\* worker w resolves the tick data of its current file in this step
Resolves(w) ==
    /\ w \in Workers
    /\ Processor(w).pc = "begin"
    /\ m_recordingProcessors'[w].pc = "upload"

\* worker w completes the finalize call of its current file in this step
Finalizes(w) ==
    /\ w \in Workers
    /\ Processor(w).pc = "upload"
    /\ m_recordingProcessors'[w].pc = "sent"

CurrentFile(w) == Processor(w).m_files[Processor(w).i]

\* what the pending request of the file's user gives this worker
PendingOf(w) ==
    LET request == Processor(w).m_userTickMap[DigitVal(CurrentFile(w).stem[1])]
    IN  IF request.answered THEN TickDataOf(request.request) ELSE NoTickData

\* C26: when a file's path has a RetryCache entry, the worker uses that
\* entry as the file's tick data whatever the user's pending request holds;
\* only without an entry does it join the pending request of the file's
\* user. An entry keeps its value until it is removed, so a retried file is
\* finalized with the tick data resolved at its first attempt.
C26_CachePreferred ==
    [][ /\ \A w \in 1 .. MaxWorkers :
              Resolves(w) =>
                  m_recordingProcessors'[w].tickData =
                      IF CurrentFile(w) \in DOMAIN m_userTickCache
                      THEN <<m_userTickCache[CurrentFile(w)]>>
                      ELSE <<PendingOf(w)>>
        /\ \A w \in 1 .. MaxWorkers :
              (Finalizes(w) /\ CurrentFile(w) \in DOMAIN m_userTickCache) =>
                  Processor(w).tickData = <<m_userTickCache[CurrentFile(w)]>>
        /\ \A f \in (DOMAIN m_userTickCache) \cap (DOMAIN m_userTickCache') :
              m_userTickCache'[f] = m_userTickCache[f]
      ]_vars

\* a retry: the worker of the second flush holds the user's newer request,
\* and is about to upload the file with the tick data cached at the first
\* attempt
C26_Witness ==
    \E w \in Workers :
        /\ Processor(w).pc = "upload"
        /\ CurrentFile(w) \in DOMAIN m_userTickCache
        /\ Processor(w).tickData = <<m_userTickCache[CurrentFile(w)]>>
        /\ PendingOf(w) # NoTickData
        /\ PendingOf(w) # m_userTickCache[CurrentFile(w)]

(* ------------------------- missing tick data -------------------------- *)
\* the tick data resolved for the file lacks tickId or elapsed
Incomplete ==
    /\ uploadTickData # <<>>
    /\ (uploadTickData[1].tickID = {} \/ uploadTickData[1].elapsed = {})

\* the query of every finalize request sent for the file: both parameters
\* when both values are present, none otherwise
QueryAsResolved ==
    \A k \in PositionsOf("/chat/sendTranscribedAudioFile/from") :
        IF Incomplete THEN uploadRequests[k].query = <<>>
        ELSE /\ Len(uploadRequests[k].query) = 2
             /\ uploadRequests[k].query[1][1] = "tickId"
             /\ uploadTickData[1].tickID = {uploadRequests[k].query[1][2]}
             /\ uploadRequests[k].query[2][1] = "elapsed"
             /\ uploadTickData[1].elapsed = {uploadRequests[k].query[2][2]}

\* a file without complete tick data goes through the same requests, and
\* its upload ends early on a thrown failure only
UploadedAllTheSame ==
    /\ (Incomplete /\ uploadAt \in {"sent", "done"}) =>
          /\ Len(uploadRequests) = Len(audioChunks) + 2
          /\ PositionsOf("/createFile") = {1}
          /\ PositionsOf("/fileChunk") = 2 .. (Len(audioChunks) + 1)
          /\ PositionsOf("/chat/sendTranscribedAudioFile/from") = {Len(audioChunks) + 2}
    /\ (Incomplete /\ uploadAt = "failed") =>
          uploadThrew \in {"file_size", "create", "chunk", "finalize"}

\* C27 as stated: a file whose tick fetch failed or gave no tickId or no
\* elapsed is still uploaded through create, chunks and finalize and, on
\* success, deleted; the finalize URL carries tickId and elapsed only when
\* both are present, and neither otherwise.
C27_UploadedThenDeleted ==
    /\ QueryAsResolved
    /\ UploadedAllTheSame
    /\ (Incomplete /\ uploadAt = "done") => ~fileOnDisk

\* C27 as amended: such a file is still uploaded through create, chunks and
\* finalize, and on success its deletion is attempted (it is deleted at no
\* other point); the finalize URL carries tickId and elapsed only when both
\* are present, and neither otherwise.
C27_UploadedWithoutTickData ==
    /\ []QueryAsResolved
    /\ []UploadedAllTheSame
    /\ [][(Incomplete /\ fileOnDisk /\ ~fileOnDisk') =>
              (uploadAt = "sent" /\ uploadAt' = "done")]_vars

\* a file whose tick fetch gave nothing was uploaded in chunks with a bare
\* finalize URL, and deleted
C27_Witness ==
    /\ uploadAt = "done"
    /\ uploadTickData = <<NoTickData>>
    /\ cachedTickData = EmptyMap
    /\ Len(audioChunks) = 2
    /\ Len(uploadRequests) = 4
    /\ uploadRequests[4].query = <<>>
    /\ ~fileOnDisk

(* ----------------------- a rejected finalize call --------------------- *)
\* C28: when the finalize call of a file completes with a non-empty
\* response body the worker treats the file as sent: once step 8 has run the
\* file has no RetryCache entry and is deleted, and no worker of a later
\* flush uploads it again.
C28_RejectedIsSent ==
    \A w \in Workers : \A f \in Processor(w).sent :
        \/ (Processor(w).pc = "sent" /\ CurrentFile(w) = f)
        \/ /\ f \notin DOMAIN m_userTickCache
           /\ f \notin disk
           /\ \A later \in Workers :
                 (later > w /\ Processor(later).pc \in {"upload", "sent"})
                     => CurrentFile(later) # f

(* ------------------------ unresolvable user ID ------------------------ *)
\* worker w gives up its current file at step 2 in this step
SkipsAtExtract(w) ==
    /\ w \in Workers
    /\ Processor(w).pc = "begin"
    /\ Processor(w).i <= Len(Processor(w).m_files)
    /\ m_recordingProcessors'[w].pc = "begin"
    /\ m_recordingProcessors'[w].i = Processor(w).i + 1

\* C29: when the user ID of a file cannot be extracted (no leading digits,
\* or an ID the worker's snapshot does not know) the worker leaves the file
\* on disk, leaves the RetryCache as it is, and goes on with the next file.
C29_UnresolvedFileRetained ==
    [][ \A w \in 1 .. MaxWorkers :
            SkipsAtExtract(w) =>
                /\ ~UserResolved(Processor(w).m_userTickMap, CurrentFile(w))
                /\ UNCHANGED m_userTickCache
                /\ (CurrentFile(w) \in disk => CurrentFile(w) \in disk')
      ]_vars

(* --------------------------- end of the pass -------------------------- *)
\* C30: every worker eventually finishes its pass, whatever fails for its
\* files, and reports exactly once, after its last file, the parent folders
\* of the files of its list, each folder once.
C30_PassEnds ==
    /\ \A w \in 1 .. MaxWorkers :
          (w \in Workers /\ ~aborted) ~> (w \in Workers /\ Processor(w).pc = "done")
    /\ [][ \A w \in 1 .. MaxWorkers :
              /\ PassEnds(w) =>
                    /\ Processor(w).i > Len(Processor(w).m_files)
                    /\ Range(Processor(w).m_recordingFolders) = FoldersOf(Processor(w).m_files)
                    /\ AllDistinct(Processor(w).m_recordingFolders)
              /\ (w \in Workers /\ ~Running(w)) => ~Running(w)'
         ]_vars
(* ----------------------- the detector never waits --------------------- *)
\* worker w is inside steps 4 to 7 of a file: in a transport call
BlockedOnNetwork(w) == w \in Workers /\ Processor(w).pc = "upload"

\* the detector's next call has room left in the model's bounds
DetectorHasRoom ==
    /\ (pc = "push" /\ m_recordingStoppedSignal) =>
           Len(m_recordingProcessors) < MaxWorkers
    /\ (pc = "toggle" /\ ~aUserWasSpeaking /\ IsAUserSpeaking) =>
           m_recordingFolderCounter < MaxFolders

\* the call the detector thread makes next returns
DetectorReturns ==
    /\ pc = "sweep" => ENABLED AreUsersStillTalking
    /\ pc = "toggle" =>
          ENABLED (/\ ToggleRecordingIfNecessary
                   /\ (~aUserWasSpeaking /\ IsAUserSpeaking) =>
                         hostRecording' = ~hostRecording)
    /\ pc = "push" => ENABLED PushRecordingsIfAvailable
    /\ pc = "sleep" => ENABLED Sleep

\* C31: the detector thread never waits for an upload, a tick fetch or a
\* worker: while workers are inside transport calls its next call (sweep,
\* edge check with the toggle of a start edge, flush, sleep) returns, and a
\* flush leaves the new worker at the start of its pass.
C31_DetectorNeverWaits ==
    /\ [](( /\ ~aborted
            /\ DetectorHasRoom
            /\ \E w \in 1 .. MaxWorkers : BlockedOnNetwork(w)) => DetectorReturns)
    /\ [][ FlushStep =>
              /\ m_recordingProcessors'[Len(m_recordingProcessors')].pc = "begin"
              /\ m_recordingProcessors'[Len(m_recordingProcessors')].i = 1
         ]_vars

\* a start edge has just been toggled while the first worker is inside a
\* transport call
C31_Witness ==
    /\ pc = "push"
    /\ BlockedOnNetwork(1)
    /\ aUserWasSpeaking
    /\ hostRecording
    /\ Len(toggleArgs) = 1
    /\ Len(generated) = 2
(* --------------------------- the read loop ---------------------------- *)
\* send() is in its read loop and this step is one ::recv of it
RecvStep == sendAt = "reading" /\ sinceStartedAt' = sinceStartedAt
\* this step leaves the read loop
LoopEnds == RecvStep /\ sendAt' = "idle"

PeerClosed == recvResult' = "closed" /\ sendResult' = "returned"
BlockedAfterBytes ==
    recvResult' = "wouldBlock" /\ response # <<>> /\ sendResult' = "returned"
TimedOut ==
    /\ recvResult' = "wouldBlock" /\ response = <<>>
    /\ sinceStartedAt >= READ_TIMEOUT
    /\ sendResult' = "timeout"
ReceiveFailed == recvResult' = "error" /\ sendResult' = "recvError"

\* C32: the read loop of send() ends in exactly one of four ways: a return
\* when the peer has closed; a return when the socket would block and at
\* least one byte has been received; a timeout error when the socket would
\* block, nothing has been received and 8 seconds have passed since the
\* read started; an error on any other receive failure. Each of these ends
\* it, nothing else does, and the timeout never follows a received byte.
C32_ReadLoopEnds ==
    [][ RecvStep =>
          /\ LoopEnds <=> (PeerClosed \/ BlockedAfterBytes \/ TimedOut \/ ReceiveFailed)
          /\ ~(PeerClosed /\ BlockedAfterBytes) /\ ~(PeerClosed /\ TimedOut)
          /\ ~(PeerClosed /\ ReceiveFailed) /\ ~(BlockedAfterBytes /\ TimedOut)
          /\ ~(BlockedAfterBytes /\ ReceiveFailed) /\ ~(TimedOut /\ ReceiveFailed)
          /\ recvResult' = "closed" => PeerClosed
          /\ (recvResult' = "wouldBlock" /\ response # <<>>) => BlockedAfterBytes
          /\ (recvResult' = "wouldBlock" /\ response = <<>>
                /\ sinceStartedAt >= READ_TIMEOUT) => TimedOut
          /\ recvResult' = "error" => ReceiveFailed
          /\ sendResult' = "timeout" => response = <<>>
          /\ ~LoopEnds => (sendAt' = "reading" /\ m_socketDesc' = m_socketDesc)
      ]_vars

\* bytes came, more than 8 seconds passed, and the call returned when the
\* socket would block
C32_Witness ==
    /\ sendResult = "returned"
    /\ recvResult = "wouldBlock"
    /\ Len(response) = 2
    /\ sinceStartedAt > READ_TIMEOUT
(* --------------------------- one exchange ----------------------------- *)
\* C33: an HTTPRequest object performs at most one exchange: when send()
\* returns a response the connection is closed, and every later send() on
\* the object fails with an error without writing anything to the network.
C33_SingleUse ==
    /\ [](exchanges <= 1)
    /\ [](exchanges >= 1 => m_socketDesc < 0)
    /\ [][ /\ (sendAt = "reading" /\ sendResult' = "returned") => m_socketDesc' < 0
           /\ (sendAt = "idle" /\ exchanges >= 1) =>
                 /\ sendResult' = "badState"
                 /\ sendAt' = "idle"
                 /\ netSends' = netSends
                 /\ exchanges' = exchanges
       ]_vars

\* a response was returned and a second send() on the object has failed
C33_Witness ==
    /\ exchanges = 1
    /\ netSends = 1
    /\ sendResult = "badState"
    /\ m_socketDesc < 0

(* ------------------------- the request methods ------------------------ *)
\* C34: send() builds and transmits a request for each of the methods GET,
\* POST and PUT: a send() on a connected object writes its request to the
\* socket, whichever of the three its method is.
C34_EveryMethodTransmitted ==
    [][ (sendAt = "idle" /\ m_socketDesc >= 0 /\ m_data.method \in {"GET", "POST", "PUT"}) =>
            /\ netSends' = netSends + 1
            /\ sendResult' # "invalidMethod"
      ]_vars
(* ----------------------------- no deadlock ---------------------------- *)
\* thread t is at a lock_guard constructor for lock l
Requests(t, l) == lockOp[t].rest # <<>> /\ Head(lockOp[t].rest) = Acquire(l)
\* thread t can take its next step
CanStep(t) ==
    /\ lockOp[t].rest # <<>>
    /\ \A l \in Locks : Requests(t, l) => HoldersOf(l) = {}

\* the chain of threads that t waits for ends, within n links, at a thread
\* that can take its next step
RECURSIVE WaitEnds(_, _)
WaitEnds(t, n) ==
    \/ CanStep(t)
    \/ /\ n > 0
       /\ \A l \in Locks :
             Requests(t, l) => \A u \in HoldersOf(l) : WaitEnds(u, n - 1)

\* an order of the mutexes that every nesting follows
LockRank(l) ==
    CASE l = "userMap" -> 1
      [] l = "userTickMap" -> 2
      [] OTHER -> 3

\* C35: no deadlock is reachable: whatever the detector, the frame callback,
\* the setters and the workers interleave, locks are requested in one fixed
\* order (each after locks of lower rank only), the chain of threads a
\* waiting thread waits for ends at a thread that can run, and every thread
\* that requests a lock eventually holds it: no thread stays inside an
\* operation for ever.
C35_NoDeadlock ==
    /\ [](\A t \in Threads : \A l \in Locks :
            Requests(t, l) =>
                /\ \A k \in 1 .. Len(lockHeld[t]) : LockRank(lockHeld[t][k]) < LockRank(l)
                /\ WaitEnds(t, Cardinality(Threads)))
    /\ []((\E t \in Threads : lockOp[t] # NoOperation) => \E t \in Threads : CanStep(t))
    /\ \A t \in Threads : []<>(lockOp[t] = NoOperation)

\* the frame callback, holding the speaking-map lock, waits for the tick-map
\* lock the flushing detector holds, while both workers wait for the folder
\* registry lock the detector also holds
C35_Witness ==
    /\ lockHeld["detector"] = <<"userTickMap", "recordingFolder">>
    /\ Requests("frame", "userTickMap")
    /\ Requests("worker", "recordingFolder")
    /\ Requests("worker2", "recordingFolder")
(* ----------------------------- lifetimes ------------------------------ *)
ThreadRuns(k) == k \in 1 .. Len(vecThreads) /\ vecThreads[k].at # "done"

\* C36: the state of an upload worker (its file list, its tick-request
\* snapshot, its touched-folder list) stays valid and reachable by its
\* thread for the whole of its pass, also when later flushes add workers to
\* the Manager's collection: the object a running thread works on is in the
\* vector's live storage, and no thread reads freed storage.
C36_WorkerStateValid ==
    \A k \in 1 .. MaxVectorWorkers :
        /\ ThreadRuns(k) => vecThreads[k].this = vecStorage
        /\ k \in 1 .. Len(vecThreads) => "freed this" \notin vecThreads[k].undefined

\* C37: during the Manager's shutdown no worker that is still running uses
\* the retry cache, the folder registry, the configuration values or their
\* locks after they have been destroyed: every worker has ended before any
\* member it uses is destroyed.
C37_JoinedBeforeTeardown ==
    \A k \in 1 .. MaxVectorWorkers :
        /\ ThreadRuns(k) =>
              Destroyed(destroyedCount)
                  \cap (UsedWhileProcessing \cup UsedWhileReporting) = {}
        /\ k \in 1 .. Len(vecThreads) =>
              "destroyed member" \notin vecThreads[k].undefined
(* --------------------------- the stop signal -------------------------- *)
\* a folder scan is still ahead in the running call of
\* pushRecordingsIfAvailable
ScanAhead ==
    /\ iterAt = "push"
    /\ pushStep > 1
    /\ \E k \in pushStep .. Len(PushSteps) : PushSteps[k] = "scan"

\* C38: no stop notification is lost: after every stop-completion callback,
\* wherever the detector is in its iteration (between the test and the reset
\* of the flag included), a flush whose folder scan begins after the
\* callback eventually runs, the detector iterating; until then the flag
\* is set or that scan is ahead in the running flush. Several callbacks may
\* share one flush.
C38_NoStopLost ==
    /\ [](uncovered > 0 => (m_recordingStoppedSignal \/ ScanAhead))
    /\ (uncovered > 0) ~> (uncovered = 0)

\* a callback came between the test and the reset of the flag, a second
\* callback since the last scan; the flag has been reset and the scan that
\* serves both is next
C38_Witness ==
    /\ iterAt = "push"
    /\ PushSteps[pushStep] = "scan"
    /\ callbackAt = 2
    /\ uncovered = 2
    /\ ~m_recordingStoppedSignal

\* the file a worker is about to take and the user its name carries
NextFileOf(w) == Processor(w).m_files[Processor(w).i]
UserOf(file) == CHOOSE id \in ExtractUserID(file) : TRUE

\* worker w takes a file for the first time and correlates it with the
\* user's pending tick request
FirstAttemptWithRequest(w) ==
    /\ w \in Workers
    /\ Processor(w).pc = "begin"
    /\ Processor(w).i <= Len(Processor(w).m_files)
    /\ m_recordingProcessors'[w].i # Processor(w).i
    /\ UserResolved(Processor(w).m_userTickMap, NextFileOf(w))
    /\ GetCachedUserTickData(m_userTickCache, NextFileOf(w)) = <<>>

\* C39: the tick request that correlates a file on its first upload attempt
\* was issued at or after the start edge of the speech whose recording
\* produced the file, never by earlier speech.
C39_FetchedInSession ==
    [][\A w \in 1 .. MaxWorkers :
          FirstAttemptWithRequest(w) =>
              issuedAt[Processor(w).m_userTickMap[UserOf(NextFileOf(w))].request]
                  >= sessionOf[NextFileOf(w).folder]]_vars

\* C40: whenever no upload worker is running, every key of the retry cache
\* is a file that is still on disk, in a folder of the registry: no file is
\* deleted while its cache entry stays behind.
C40_CacheKeysOnDisk ==
    (\A w \in Workers : ~Running(w)) =>
        \A f \in DOMAIN m_userTickCache : f \in disk /\ Registered(f.folder)

====
